---- MODULE Spec2Model ----
(***************************************************************************)
(* A model of the declarative layer of pathway: schemas (schema.py), error *)
(* attribution (trace.py), table slices (table_slice.py) and row           *)
(* transformers (row_transformer.py).                                      *)
(*                                                                         *)
(* Python values are modelled as follows.  An ordered dict is a sequence   *)
(* of <<key, value>> pairs with pairwise distinct keys, in insertion       *)
(* order.  An object with identity (a ColumnDefinition, a dict held by a   *)
(* TableSlice, an exception) lives in a heap, a sequence indexed by the    *)
(* object's id.  A string built by concatenation is a TLA+ string.         *)
(***************************************************************************)
EXTENDS Integers, Sequences, FiniteSets, TLC

VARIABLES
    cdefs,      \* heap of ColumnDefinition objects (schema.py)
    schemas,    \* the Schema classes built so far
    sres,       \* outcome of the last schema operation
    stack,      \* the call stack, outermost frame first (trace.py)
    pc,         \* "running", or "raising" while an exception propagates
    exc,        \* the exception in flight
    tb,         \* its __traceback__, the entry added last first
    captured,   \* the Trace an operator captured when it was built
    tres,       \* outcome of the last from_traceback / _reraise_with_user_frame
    dicts,      \* heap of the dicts held by TableSlice objects (table_slice.py)
    slices,     \* the TableSlice objects built so far
    slres,      \* outcome of the last TableSlice operation
    transformer, \* the RowTransformer built by from_class (row_transformer.py)
    graph,      \* the operators added to the parse graph G
    rtres,      \* outcome of the last ClassArg declaration / transformer call
    views,      \* the cache of as_dict and the last accessor's result (schema.py)
    printer,    \* an ExpressionFormatter and what was rendered (expression_printer.py)
    strres      \* the last string method evaluated on a row (expressions/string.py)

svars == <<cdefs, schemas, sres>>

tvars == <<stack, pc, exc, tb, captured, tres>>

slvars == <<dicts, slices, slres>>

rvars == <<transformer, graph, rtres>>

vwvars == <<views>>

pvars == <<printer>>

stvars == <<strres>>

vars ==
    <<cdefs, schemas, sres, stack, pc, exc, tb, captured, tres, dicts, slices,
      slres, transformer, graph, rtres, views, printer, strres>>

\* what the operations of one component leave alone
notSchema == <<tvars, slvars, rvars, vwvars, pvars, stvars>>

notTrace == <<svars, slvars, rvars, vwvars, pvars, stvars>>

notSlice == <<svars, tvars, rvars, vwvars, pvars, stvars>>

notRT == <<svars, tvars, slvars, vwvars, pvars, stvars>>

notViews == <<svars, tvars, slvars, rvars, pvars, stvars>>

notPrinter == <<svars, tvars, slvars, rvars, vwvars, stvars>>

notString == <<svars, tvars, slvars, rvars, vwvars, pvars>>

----------------------------------------------------------------------------
(* Ordered dicts                                                           *)

Keys(d) == [i \in 1..Len(d) |-> d[i][1]]

KeySet(d) == {d[i][1] : i \in 1..Len(d)}

Has(d, k) == k \in KeySet(d)

Get(d, k) == d[CHOOSE i \in 1..Len(d) : d[i][1] = k][2]

\* d[k] = v: a present key keeps its position, a new key goes last
Put(d, k, v) ==
    IF Has(d, k)
    THEN [i \in 1..Len(d) |-> IF d[i][1] = k THEN <<k, v>> ELSE d[i]]
    ELSE Append(d, <<k, v>>)

\* d.pop(k) for a present key
Pop(d, k) == SelectSeq(d, LAMBDA p : p[1] # k)

RECURSIVE SeqSum(_)
SeqSum(s) == IF s = <<>> THEN 0 ELSE Head(s) + SeqSum(Tail(s))

RECURSIVE Concat(_)
Concat(ss) == IF ss = <<>> THEN <<>> ELSE Head(ss) \o Concat(Tail(ss))

Reverse(s) == [i \in 1..Len(s) |-> s[Len(s) + 1 - i]]

\* the sequences over S of pairwise distinct elements, of length lo..hi
DistinctSeqs(S, lo, hi) ==
    {s \in UNION {[1..n -> S] : n \in lo..hi} :
        \A i, j \in 1..Len(s) : i # j => s[i] # s[j]}

----------------------------------------------------------------------------
(* Dtypes                                                                  *)

INT == [base |-> "int", opt |-> FALSE]

FLOAT == [base |-> "float", opt |-> FALSE]

ANY == [base |-> "Any", opt |-> FALSE]

OPT_INT == [base |-> "int", opt |-> TRUE]

\* Python's None where a dtype is expected (ColumnDefinition.dtype unset)
NoDType == [base |-> "None", opt |-> FALSE]

\* DType is a NewType over object: the call returns its argument
DType(t) == t

\* dtype.py is not part of the sources; assignability as the specification
\* states it: anything is assignable to Any, int widens to float, T widens
\* to Optional[T], and otherwise the dtypes must be equal
dtype_issubclass(left, right) ==
    \/ right = ANY
    \/ /\ left # ANY
       /\ left.opt => right.opt
       /\ \/ left.base = right.base
          \/ left.base = "int" /\ right.base = "float"

----------------------------------------------------------------------------
(* schema.py                                                               *)

\* the private sentinel for "no default value"
no_default_value_marker == "undefined"

\* ColumnDefinition.name unset (None); `column.name or name` treats the
\* empty string the same way
NoName == ""

ColumnDefinition(primary_key, default_value, dtype, name) ==
    [primary_key |-> primary_key, default_value |-> default_value,
     dtype |-> dtype, name |-> name]

\* ColumnDefinition(dtype=dtype), the other fields at their defaults
DefaultColumnDefinition(dtype) ==
    ColumnDefinition(FALSE, no_default_value_marker, dtype, NoName)

\* a class member's value: a ColumnDefinition object (by id) or something else
IsColumnDefinition(v) == v.kind = "cd"

CdRef(id) == [kind |-> "cd", id |-> id]

NotAColumn == [kind |-> "other", id |-> 0]

\* StableSet((*xs)): first occurrences, in order
RECURSIVE StableSet(_)
StableSet(s) ==
    IF s = <<>> THEN <<>>
    ELSE LET r == StableSet(SubSeq(s, 1, Len(s) - 1))
             x == s[Len(s)]
         IN IF \E i \in 1..Len(r) : r[i] = x THEN r ELSE Append(r, x)

\* the loop of _create_column_definitions over column_names[i..], with the
\* columns built so far and the heap as it is
RECURSIVE ColumnLoop(_, _, _, _, _, _)
ColumnLoop(column_names, i, annotations, fields, columns, heap) ==
    IF i > Len(column_names)
    THEN [status |-> "ok", columns |-> columns, heap |-> heap]
    ELSE
    LET name == column_names[i]
        dtype == IF Has(annotations, name)
                 THEN DType(Get(annotations, name)) ELSE DType(ANY)
        fresh == ~Has(fields, name)
        heap1 == IF fresh THEN Append(heap, DefaultColumnDefinition(dtype)) ELSE heap
        column == IF fresh THEN CdRef(Len(heap1)) ELSE Get(fields, name)
    IN  IF ~IsColumnDefinition(column)
        THEN [status |-> "ValueError", columns |-> <<>>, heap |-> heap1]
        ELSE
        LET obj == heap1[column.id]
            name2 == IF obj.name # NoName THEN obj.name ELSE name
            heap2 == IF obj.dtype = NoDType
                     THEN [heap1 EXCEPT ![column.id].dtype = dtype] ELSE heap1
        IN  IF dtype # DType(ANY) /\ dtype # heap2[column.id].dtype
            THEN [status |-> "TypeError", columns |-> <<>>, heap |-> heap2]
            ELSE ColumnLoop(column_names, i + 1, annotations, fields,
                            Put(columns, name2, column.id), heap2)

\* the columns built as if no member were annotated
CreateColumnsUnannotated(annotations, fields, heap) ==
    ColumnLoop(StableSet(Keys(annotations) \o Keys(fields)), 1,
               <<>>, fields, <<>>, heap)

create_column_definitions(annotations, fields, heap) ==
    ColumnLoop(StableSet(Keys(annotations) \o Keys(fields)), 1,
               annotations, fields, <<>>, heap)

\* SchemaMetaclass(_name, (Schema,), _dict): the class with its __columns__,
\* or the exception __init__ raises
schema_builder_(annotations, fields, heap) ==
    LET r == create_column_definitions(annotations, fields, heap)
    IN  [status |-> r.status,
         schema |-> [annotations |-> annotations, fields |-> fields,
                     columns |-> r.columns],
         heap |-> r.heap]

\* get_type_hints(schema) of a class deriving from Schema alone
get_type_hints(schema) == schema.annotations

\* _cls_fields(schema): the non-dunder entries of the class __dict__
cls_fields(schema) == schema.fields

\* the keys of the maps from first to last
DictOfMapsInOrder(maps) ==
    LET ks == StableSet(Concat([i \in 1..Len(maps) |-> Keys(maps[i])]))
    IN  [i \in 1..Len(ks) |->
            <<ks[i], Get(maps[CHOOSE m \in 1..Len(maps) : Has(maps[m], ks[i])], ks[i])>>]

\* dict(ChainMap(*maps)): the keys in the order of ChainMap.__iter__ (the
\* maps from last to first, a key staying where it first appeared), each
\* with the value of the first map that holds it
ChainMapValue(maps, k) ==
    Get(maps[CHOOSE i \in 1..Len(maps) :
                /\ Has(maps[i], k)
                /\ \A j \in 1..(i - 1) : ~Has(maps[j], k)], k)

DictOfChainMap(maps) ==
    LET ks == StableSet(Concat([i \in 1..Len(maps) |-> Keys(Reverse(maps)[i])]))
    IN  [i \in 1..Len(ks) |-> <<ks[i], ChainMapValue(maps, ks[i])>>]

\* the two assertions of schema_add
AnnotationsSizeOk(annotations, annots_list) ==
    Len(annotations) = SeqSum([i \in 1..Len(annots_list) |-> Len(annots_list[i])])

FieldsSizeOk(fields, fields_list) ==
    Len(fields) = SeqSum([i \in 1..Len(fields_list) |-> Len(fields_list[i])])

schema_add(ss, heap) ==
    LET annots_list == [i \in 1..Len(ss) |-> get_type_hints(ss[i])]
        annotations == DictOfChainMap(annots_list)
        fields_list == [i \in 1..Len(ss) |-> cls_fields(ss[i])]
        fields == DictOfChainMap(fields_list)
        failed == [status |-> "AssertionError",
                   schema |-> [annotations |-> <<>>, fields |-> <<>>, columns |-> <<>>],
                   heap |-> heap]
    IN  IF ~AnnotationsSizeOk(annotations, annots_list) THEN failed
        ELSE IF ~FieldsSizeOk(fields, fields_list) THEN failed
        ELSE schema_builder_(annotations, fields, heap)

\* SchemaMetaclass.as_dict
as_dict(schema, heap) ==
    [i \in 1..Len(schema.columns) |->
        <<schema.columns[i][1], heap[schema.columns[i][2]].dtype>>]

\* SchemaMetaclass.keys: a set-like view of the names
keys(schema, heap) == Keys(as_dict(schema, heap))

\* k1 == k2 on lists: the order counts
KeysListEqual(k1, k2) == k1 = k2

\* k1 == k2 on dict key views: set equality
KeysViewEqual(k1, k2) ==
    {k1[i] : i \in 1..Len(k1)} = {k2[i] : i \in 1..Len(k2)}

is_subschema(left, right, heap) ==
    IF ~KeysViewEqual(keys(left, heap), keys(right, heap)) THEN FALSE
    ELSE \A i \in 1..Len(keys(left, heap)) :
            LET k == keys(left, heap)[i]
            IN  dtype_issubclass(Get(as_dict(left, heap), k),
                                 Get(as_dict(right, heap), k))

----------------------------------------------------------------------------
(* Schema operations as the program performs them                          *)

MaxSchemas == 2

ColNames == {"a", "b"}

AnnotTypes == {INT, FLOAT}

\* column_definition(primary_key=..., default_value=..., dtype=..., name=...)
column_definition(primary_key, default_value, dtype, name) ==
    ColumnDefinition(primary_key, default_value, dtype, name)

OrderedDicts(K, V) ==
    {d \in UNION {[1..n -> K \X V] : n \in 1..Cardinality(K)} :
        \A i, j \in 1..Len(d) : i # j => d[i][1] # d[j][1]}

\* the keyword arguments given to schema_from_types
FromTypesInputs == OrderedDicts(ColNames, AnnotTypes)

\* the dicts given to schema_builder: column_definition(dtype=int)
BuilderInputs ==
    OrderedDicts(ColNames,
                 {column_definition(pk, no_default_value_marker, INT, NoName) :
                    pk \in BOOLEAN})

\* class bodies whose members read  x: T = pw.column_definition()
ClassInputs ==
    OrderedDicts(ColNames,
                 {INT} \X {column_definition(FALSE, no_default_value_marker,
                                             NoDType, NoName)})

\* the ColumnDefinition objects of `defs` (name -> record) put on the heap,
\* and the dict name -> object
AllocFields(defs, heap) ==
    [heap |-> heap \o [i \in 1..Len(defs) |-> defs[i][2]],
     fields |-> [i \in 1..Len(defs) |-> <<defs[i][1], CdRef(Len(heap) + i)>>]]

NoSchema == [annotations |-> <<>>, fields |-> <<>>, columns |-> <<>>]

NoResult ==
    [op |-> "none", args |-> <<>>, status |-> "ok", schema |-> NoSchema,
     heap |-> <<>>, value |-> FALSE]

SResult(op, args, r) ==
    [op |-> op, args |-> args, status |-> r.status,
     schema |-> IF r.status = "ok" THEN r.schema ELSE NoSchema,
     heap |-> IF r.status = "ok" THEN r.heap ELSE <<>>,
     value |-> FALSE]

\* a construction: the class joins the program's schemas unless __init__ raised
Construct(op, annotations, defs) ==
    LET a == AllocFields(defs, cdefs)
        r == schema_builder_(annotations, a.fields, a.heap)
    IN  /\ sres = NoResult
        /\ Len(schemas) < MaxSchemas
        /\ sres' = SResult(op, <<>>, r)
        /\ IF r.status = "ok"
           THEN schemas' = Append(schemas, r.schema) /\ cdefs' = r.heap
           ELSE UNCHANGED <<schemas, cdefs>>
        /\ UNCHANGED notSchema

\* schema_from_types(**kwargs)
SchemaFromTypes ==
    \E kwargs \in FromTypesInputs :
        Construct("schema_from_types", kwargs, <<>>)

\* schema_builder(columns)
SchemaBuilder ==
    \E columns \in BuilderInputs :
        Construct("schema_builder", <<>>, columns)

\* class S(pw.Schema): ...
SchemaClass ==
    \E body \in ClassInputs :
        Construct("class",
                  [i \in 1..Len(body) |-> <<body[i][1], body[i][2][1]>>],
                  [i \in 1..Len(body) |-> <<body[i][1], body[i][2][2]>>])

\* the argument lists of schema_add: at least two of the program's schemas,
\* one schema possibly given twice
AddArgs ==
    DistinctSeqs(1..Len(schemas), 2, Len(schemas))
        \cup {<<i, i>> : i \in 1..Len(schemas)}

\* schema_add(*schemas), and A | B for two of them; the sum is kept among the
\* program's schemas while there is room for it
SchemaAdd ==
    \E args \in AddArgs :
        LET r == schema_add([i \in 1..Len(args) |-> schemas[args[i]]], cdefs)
        IN  /\ sres = NoResult
            /\ sres' = SResult("schema_add", args, r)
            /\ IF r.status = "ok" /\ Len(schemas) < MaxSchemas
               THEN schemas' = Append(schemas, r.schema) /\ cdefs' = r.heap
               ELSE UNCHANGED <<schemas, cdefs>>
            /\ UNCHANGED notSchema

IsSubschema ==
    \E i, j \in 1..Len(schemas) :
        /\ sres = NoResult
        /\ sres' = [NoResult EXCEPT !.op = "is_subschema", !.args = <<i, j>>,
                        !.value = is_subschema(schemas[i], schemas[j], cdefs)]
        /\ UNCHANGED <<schemas, cdefs, notSchema>>

\* the caller is done with the outcome of the last operation
SchemaReturn ==
    /\ sres # NoResult
    /\ sres' = NoResult
    /\ UNCHANGED <<schemas, cdefs, notSchema>>

SchemaInit ==
    /\ cdefs = <<>>
    /\ schemas = <<>>
    /\ sres = NoResult

SchemaNext ==
    \/ SchemaFromTypes
    \/ SchemaBuilder
    \/ SchemaClass
    \/ SchemaAdd
    \/ IsSubschema
    \/ SchemaReturn

----------------------------------------------------------------------------
(* Claims about schemas                                                    *)

ColumnNames(schema) == KeySet(schema.columns)

ColumnDType(schema, name) == cdefs[Get(schema.columns, name)].dtype

\* how a schema declares the column `name`
ByAnnotationOnly(schema, name) ==
    Has(schema.annotations, name) /\ ~Has(schema.fields, name)

ByFieldOnly(schema, name) ==
    ~Has(schema.annotations, name) /\ Has(schema.fields, name)

ByBoth(schema, name) ==
    Has(schema.annotations, name) /\ Has(schema.fields, name)

AddInputsOverlap ==
    \E i, j \in 1..Len(sres.args) :
        /\ i # j
        /\ ColumnNames(schemas[sres.args[i]])
              \cap ColumnNames(schemas[sres.args[j]]) # {}

\* C1: schema_add fails whenever two of its inputs declare a column of the
\* same name, however each input declares it.
C1_AddOverlapFails ==
    (sres.op = "schema_add" /\ AddInputsOverlap) => sres.status # "ok"

\* C10: is_subschema(a, b) is true exactly when a and b have the same set of
\* column names and each dtype of a is assignable to the dtype b gives that
\* name; is_subschema(a, a) is true.
C10_IsSubschema ==
    sres.op = "is_subschema" =>
        LET a == schemas[sres.args[1]]
            b == schemas[sres.args[2]]
        IN  /\ sres.value <=>
                  /\ ColumnNames(a) = ColumnNames(b)
                  /\ \A n \in ColumnNames(a) :
                        dtype_issubclass(ColumnDType(a, n), ColumnDType(b, n))
            /\ sres.args[1] = sres.args[2] => sres.value

\* a is a subschema of b with the columns in another order and another
\* primary key, and b is not a subschema of a
C10_Witness ==
    /\ sres.op = "is_subschema"
    /\ sres.value
    /\ LET a == schemas[sres.args[1]]
           b == schemas[sres.args[2]]
       IN  /\ Len(a.columns) > 1
           /\ Keys(a.columns) # Keys(b.columns)
           /\ \E n \in ColumnNames(a) :
                cdefs[Get(a.columns, n)].primary_key
                    # cdefs[Get(b.columns, n)].primary_key
           /\ ~is_subschema(b, a, cdefs)

----------------------------------------------------------------------------
(* trace.py                                                                *)

\* A file name is a sequence of pieces of its text; a pattern of
\* Frame.is_external is such a sequence too, and `pattern in filename` holds
\* when the pattern's pieces occur in it one after another.
Contains(filename, pattern) ==
    \E i \in 1..(Len(filename) - Len(pattern) + 1) :
        SubSeq(filename, i, i + Len(pattern) - 1) = pattern

Frame(filename, line_number, line, function) ==
    [filename |-> filename, line_number |-> line_number, line |-> line,
     function |-> function]

\* Optional[Frame]: None
NoFrame == Frame(<<>>, 0, "", "")

exclude_patterns ==
    << <<"pathway/tests">>, <<"pathway/internals">>, <<"pathway/io">>,
       <<"pathway/stdlib">>, <<"pathway/debug">>, <<"@beartype">> >>

\* the exclusion patterns alone, without the rule for test modules
MatchesNoPattern(frame) ==
    \A i \in 1..Len(exclude_patterns) :
        ~Contains(frame.filename, exclude_patterns[i])

\* Frame.is_external
is_external(frame) ==
    IF Contains(frame.filename, <<"pathway/tests", "/test_">>) THEN TRUE
    ELSE \A i \in 1..Len(exclude_patterns) :
            ~Contains(frame.filename, exclude_patterns[i])

\* Frame.is_marker
is_marker(frame) == frame.function = "_pathway_trace_marker"

\* the same loop keeping the first external frame instead of the last
RECURSIVE ScanFramesKeepFirst(_, _, _)
ScanFramesKeepFirst(frames, i, user_frame) ==
    IF i > Len(frames) THEN user_frame
    ELSE IF is_marker(frames[i]) THEN user_frame
    ELSE IF is_external(frames[i]) /\ user_frame.function = ""
         THEN ScanFramesKeepFirst(frames, i + 1, frames[i])
    ELSE ScanFramesKeepFirst(frames, i + 1, user_frame)

\* the loop of Trace.from_traceback over frames[i..], user_frame being the
\* frame remembered so far; a marker frame ends the loop
RECURSIVE ScanFrames(_, _, _)
ScanFrames(frames, i, user_frame) ==
    IF i > Len(frames) THEN user_frame
    ELSE IF is_marker(frames[i]) THEN user_frame
    ELSE IF is_external(frames[i]) THEN ScanFrames(frames, i + 1, frames[i])
    ELSE ScanFrames(frames, i + 1, user_frame)

\* traceback.extract_stack()[:-1] for a call stack given oldest frame first:
\* extract_stack lists the oldest frame first, and the last entry, the
\* caller of extract_stack itself, is dropped
ExtractStackButLast(callstack) == SubSeq(callstack, 1, Len(callstack) - 1)

FromTracebackFrame ==
    Frame(<<"/site/", "pathway/internals", "/trace.py">>, 53,
          "for e in traceback.extract_stack()[:-1]", "from_traceback")

ReraiseFrame ==
    Frame(<<"/site/", "pathway/internals", "/trace.py">>, 94,
          "trace = Trace.from_traceback()", "_reraise_with_user_frame")

\* A Trace object.  This module reads nothing but user_frame from a Trace
\* it is handed, so the model keeps the frames list apart (FramesSeen).
Trace(user_frame) == [none |-> FALSE, user_frame |-> user_frame]

\* Optional[Trace]: None
NoTrace == [none |-> TRUE, user_frame |-> NoFrame]

\* the frames list Trace.from_traceback() builds when called with
\* `callstack` as the stack of its caller
FramesSeen(callstack) ==
    ExtractStackButLast(Append(callstack, FromTracebackFrame))

\* Trace.from_traceback() called with `callstack` as the stack of its caller
from_traceback(callstack) ==
    Trace(ScanFrames(FramesSeen(callstack), 1, NoFrame))

\* _format_frame, the text as a sequence of its pieces
format_frame(frame) ==
    <<"Occurred here:", "\n    Line: ", frame.line, "\n    File: ">>
        \o frame.filename \o <<":", ToString(frame.line_number)>>

\* Exception classes: the class name, __qualname__, __module__, the method
\* resolution order (class names, the class itself first) and the id of the
\* exception held in the class attribute __pathway_wrapped__ (0: no such
\* attribute)
BuiltinMro(name) ==
    CASE name = "KeyError" -> <<"KeyError", "LookupError", "Exception", "BaseException">>
      [] name = "ValueError" -> <<"ValueError", "Exception", "BaseException">>
      [] name = "KeyboardInterrupt" -> <<"KeyboardInterrupt", "BaseException">>
      [] OTHER -> <<name, "Exception", "BaseException">>

BuiltinType(name) ==
    [name |-> name, qualname |-> name, module |-> "builtins",
     mro |-> BuiltinMro(name), pathway_wrapped |-> 0]

\* isinstance(e, cls) for the class named cls
IsInstance(e, cls) == \E i \in 1..Len(e.type.mro) : e.type.mro[i] = cls

\* hasattr(e, "__pathway_wrapped__")
IsWrapped(e) == e.type.pathway_wrapped # 0

\* the statement  class Wrapper(error_type):  of _reraise_with_user_frame.
\* The class statement names the class Wrapper; of the entries of its body,
\* __qualname__ and __module__ set the class's qualified name and module,
\* while an entry __name__ does not rename a class.
WrapperClass(e) ==
    [name |-> "Wrapper", qualname |-> e.type.qualname, module |-> e.type.module,
     mro |-> <<"Wrapper">> \o e.type.mro, pathway_wrapped |-> e.id]

\* str(e): KeyError shows the repr of its single argument, Wrapper takes
\* Exception.__str__, which shows the argument itself
Str(e) ==
    IF IsInstance(e, "KeyError") /\ ~IsWrapped(e)
    THEN <<"'">> \o e.args \o <<"'">> ELSE e.args

NoExc ==
    [id |-> 0, type |-> BuiltinType("None"), args |-> <<>>, cause |-> "None"]

\* the wrapping of _reraise_with_user_frame: the exception it raises, the
\* trace it used and the frames it scanned
WrapWithUserFrame(e, trace, callstack) ==
    LET derived == trace = NoTrace
        trace1 == IF derived
                  THEN from_traceback(Append(callstack, ReraiseFrame)) ELSE trace
        frames == IF derived
                  THEN FramesSeen(Append(callstack, ReraiseFrame)) ELSE <<>>
        user_frame == trace1.user_frame
    IN  IF user_frame = NoFrame
        THEN [raised |-> e, trace |-> trace1, frames |-> frames]
        ELSE [raised |-> [id |-> e.id + 1, type |-> WrapperClass(e),
                          args |-> Str(e) \o <<"\n">> \o format_frame(user_frame),
                          cause |-> e.cause],
              trace |-> trace1, frames |-> frames]

\* _reraise_with_user_frame without its test for __pathway_wrapped__
reraise_always_wrapping(e, trace, callstack) ==
    WrapWithUserFrame(e, trace, callstack)

\* _reraise_with_user_frame deriving its trace whatever trace it is given
reraise_ignoring_trace(e, trace, callstack) ==
    IF IsWrapped(e) THEN [raised |-> e, trace |-> trace, frames |-> <<>>]
    ELSE WrapWithUserFrame(e, NoTrace, callstack)

\* _reraise_with_user_frame(e, trace) called with `callstack` as the stack
\* of its caller
reraise_with_user_frame(e, trace, callstack) ==
    IF IsWrapped(e) THEN [raised |-> e, trace |-> trace, frames |-> <<>>]
    ELSE WrapWithUserFrame(e, trace, callstack)

\* A traceback is the sequence of its entries, the entry of the frame the
\* exception reached last first (tb_next is the rest); an entry names the
\* frame's function and file and the line the frame was executing.  The
\* traceback None is the empty sequence.
TbEntry(frame, lineno) ==
    [function |-> frame.function, filename |-> frame.filename,
     tb_lineno |-> lineno]

\* the entry a frame gets at the line it is executing
TbHere(frame) == TbEntry(frame, frame.line_number)

\* the traceback handed to with_traceback without the step to tb_next
WholeTraceback(traceback) == traceback

\* traceback = e.__traceback__; if traceback is not None: traceback =
\* traceback.tb_next
TracebackNext(traceback) ==
    IF traceback # <<>> THEN Tail(traceback) ELSE traceback

\* the traceback of the exception _reraise_with_user_frame(e, trace) raises,
\* as it leaves that function: r is what the function raised and the trace
\* it used, traceback is e.__traceback__.  Each raise statement adds the
\* entry of its own line in front of the traceback of what it raises.
reraised_traceback(e, r, traceback) ==
    IF IsWrapped(e)
    THEN <<TbEntry(ReraiseFrame, 91)>> \o traceback
    ELSE IF r.trace.user_frame = NoFrame
    THEN <<TbEntry(ReraiseFrame, 99)>> \o traceback
    ELSE <<TbEntry(ReraiseFrame, 121)>> \o TracebackNext(traceback)

----------------------------------------------------------------------------
(* The program calling, raising and unwinding                              *)

MaxDepth == 3

\* the frames of the model: the program's script, a test module, two
\* functions of the library, and the wrapper trace_user_frame returns
MainFrame == Frame(<<"/home/app/", "main.py">>, 10, "run()", "<module>")

TestFrame ==
    Frame(<<"/site/", "pathway/tests", "/test_", "common.py">>, 20,
          "t.select()  # cause", "test_select")

TableFrame ==
    Frame(<<"/site/", "pathway/internals", "/table.py">>, 30,
          "return self._select(cols)", "select")

CsvFrame ==
    Frame(<<"/site/", "pathway/io", "/csv/__init__.py">>, 40,
          "return construct(path)", "read")

MarkerFrame ==
    Frame(<<"/site/", "pathway/internals", "/trace.py">>, 128,
          "return func(*args, **kwargs)", "_pathway_trace_marker")

\* the generator of custom_trace, suspended at its yield
CustomTraceFrame ==
    Frame(<<"/site/", "pathway/internals", "/trace.py">>, 138,
          "yield", "custom_trace")

\* the __exit__ of the context manager contextlib makes of that generator,
\* throwing the exception of the block into it
ExitFrame ==
    Frame(<<"/usr/lib/python3/", "contextlib.py">>, 155,
          "self.gen.throw(typ, value, traceback)", "__exit__")

Frames == {MainFrame, TestFrame, TableFrame, CsvFrame, MarkerFrame}

\* further frames of the library: a module of the test harness that is not a
\* test module, a module of the standard library of operators, the debug
\* module, and the wrapper runtime_type_check puts around a function
HarnessFrame ==
    Frame(<<"/site/", "pathway/tests", "/utils.py">>, 50,
          "run_graph(table)", "run_all")

StdlibFrame ==
    Frame(<<"/site/", "pathway/stdlib", "/temporal/_window.py">>, 60,
          "return window._apply(self)", "windowby")

DebugFrame ==
    Frame(<<"/site/", "pathway/debug", "/__init__.py">>, 70,
          "return table_from_pandas(df)", "parse_to_table")

BeartypeFrame ==
    Frame(<<"<", "@beartype", "(pathway.internals.schema.schema_from_types) at 0x7f>">>,
          80, "", "schema_from_types")

AllFrames ==
    Frames \cup {HarnessFrame, StdlibFrame, DebugFrame, BeartypeFrame}

RaisedTypes ==
    {BuiltinType("KeyError"), BuiltinType("ValueError"),
     BuiltinType("KeyboardInterrupt")}

CatchClasses ==
    {"KeyError", "LookupError", "ValueError", "Exception",
     "KeyboardInterrupt", "BaseException"}

Causes == {"None", "KeyError('k')"}

\* a stack entry: the frame, and the trace of the custom_trace block the
\* frame is executing (NoTrace outside any such block)
Entry(frame, scope) == [frame |-> frame, scope |-> scope]

StackFrames(st) == [i \in 1..Len(st) |-> st[i].frame]

\* the last from_traceback or _reraise_with_user_frame: the frames scanned
\* (none when the trace was given or not needed), the trace given, the trace
\* used, the exception handled and the exception raised
NoTres ==
    [op |-> "none", frames |-> <<>>, given |-> NoTrace, trace |-> NoTrace,
     e |-> NoExc, raised |-> NoExc, e_traceback |-> <<>>,
     raised_traceback |-> <<>>]

\* the traceback of an exception that has left the frame above `st`: the
\* frame it arrives in adds its entry
Arrive(traceback, st) ==
    IF st = <<>> THEN traceback
    ELSE <<TbHere(st[Len(st)].frame)>> \o traceback

\* a function is called
Call ==
    \E f \in Frames :
        /\ pc = "running"
        /\ Len(stack) < MaxDepth
        /\ stack' = Append(stack, Entry(f, NoTrace))
        /\ tres' = NoTres
        /\ UNCHANGED <<pc, exc, tb, captured, notTrace>>

\* the running function returns
Return ==
    /\ pc = "running"
    /\ stack # <<>>
    /\ stack' = SubSeq(stack, 1, Len(stack) - 1)
    /\ tres' = NoTres
    /\ UNCHANGED <<pc, exc, tb, captured, notTrace>>

\* the library builds a node: Trace.from_traceback() in the running function
CaptureTrace ==
    /\ pc = "running"
    /\ stack # <<>>
    /\ LET t == from_traceback(StackFrames(stack))
       IN  /\ captured' = t
           /\ tres' = [NoTres EXCEPT !.op = "from_traceback", !.trace = t,
                           !.frames = FramesSeen(StackFrames(stack))]
    /\ UNCHANGED <<stack, pc, exc, tb, notTrace>>

\* the running library function enters  with custom_trace(captured):
EnterCustomTrace ==
    /\ pc = "running"
    /\ stack # <<>>
    /\ captured # NoTrace
    /\ LET top == stack[Len(stack)]
       IN  /\ ~is_external(top.frame)
           /\ ~is_marker(top.frame)
           /\ top.scope = NoTrace
           /\ stack' = [stack EXCEPT ![Len(stack)].scope = captured]
    /\ tres' = NoTres
    /\ UNCHANGED <<pc, exc, tb, captured, notTrace>>

\* the running function raises
Raise ==
    \E t \in RaisedTypes, c \in Causes :
        /\ pc = "running"
        /\ stack # <<>>
        /\ ~is_marker(stack[Len(stack)].frame)
        /\ exc' = [id |-> 1, type |-> t, args |-> <<"boom">>, cause |-> c]
        /\ tb' = <<TbHere(stack[Len(stack)].frame)>>
        /\ pc' = "raising"
        /\ tres' = NoTres
        /\ UNCHANGED <<stack, captured, notTrace>>

Handled(op, given, e, r, traceback) ==
    [op |-> op, frames |-> r.frames, given |-> given, trace |-> r.trace,
     e |-> e, raised |-> r.raised, e_traceback |-> traceback,
     raised_traceback |-> reraised_traceback(e, r, traceback)]

\* the exception reaches the wrapper of trace_user_frame: `except Exception
\* as e: _reraise_with_user_frame(e)`, and what that raises leaves the wrapper
UnwindMarker ==
    /\ pc = "raising"
    /\ stack # <<>>
    /\ is_marker(stack[Len(stack)].frame)
    /\ IsInstance(exc, "Exception")
    /\ LET r == reraise_with_user_frame(exc, NoTrace, StackFrames(stack))
           left == SubSeq(stack, 1, Len(stack) - 1)
       IN  /\ exc' = r.raised
           /\ tres' = Handled("trace_user_frame", NoTrace, exc, r, tb)
           /\ tb' = Arrive(<<TbEntry(MarkerFrame, 130)>>
                               \o reraised_traceback(exc, r, tb), left)
           /\ stack' = left
    /\ UNCHANGED <<pc, captured, notTrace>>

\* the exception leaves a custom_trace block: `except Exception as e:
\* _reraise_with_user_frame(e, trace)`; it goes on in the frame of the block
UnwindCustomTrace ==
    /\ pc = "raising"
    /\ stack # <<>>
    /\ stack[Len(stack)].scope # NoTrace
    /\ IsInstance(exc, "Exception")
    /\ LET given == stack[Len(stack)].scope
           r == reraise_with_user_frame(exc, given, StackFrames(stack))
           thrown == <<TbHere(CustomTraceFrame)>> \o tb
       IN  /\ exc' = r.raised
           /\ tres' = Handled("custom_trace", given, exc, r, thrown)
           /\ tb' = IF r.raised = exc THEN tb
                     ELSE <<TbHere(stack[Len(stack)].frame), TbHere(ExitFrame),
                            TbEntry(CustomTraceFrame, 140)>>
                              \o reraised_traceback(exc, r, thrown)
    /\ stack' = [stack EXCEPT ![Len(stack)].scope = NoTrace]
    /\ UNCHANGED <<pc, captured, notTrace>>

\* the exception leaves a frame that does not handle it
UnwindFrame ==
    /\ pc = "raising"
    /\ stack # <<>>
    /\ LET top == stack[Len(stack)]
       IN  \/ ~IsInstance(exc, "Exception")
           \/ ~is_marker(top.frame) /\ top.scope = NoTrace
    /\ stack' = SubSeq(stack, 1, Len(stack) - 1)
    /\ tb' = Arrive(tb, SubSeq(stack, 1, Len(stack) - 1))
    /\ tres' = NoTres
    /\ UNCHANGED <<pc, exc, captured, notTrace>>

\* a frame of the program catches the exception:  except cls:
Catch ==
    \E cls \in CatchClasses :
        /\ pc = "raising"
        /\ stack # <<>>
        /\ is_external(stack[Len(stack)].frame)
        /\ IsInstance(exc, cls)
        /\ pc' = "running"
        /\ exc' = NoExc
        /\ tb' = <<>>
        /\ tres' = NoTres
        /\ UNCHANGED <<stack, captured, notTrace>>

TraceInit ==
    /\ stack = <<>>
    /\ pc = "running"
    /\ exc = NoExc
    /\ tb = <<>>
    /\ captured = NoTrace
    /\ tres = NoTres

TraceNext ==
    \/ Call
    \/ Return
    \/ CaptureTrace
    \/ EnterCustomTrace
    \/ Raise
    \/ UnwindMarker
    \/ UnwindCustomTrace
    \/ UnwindFrame
    \/ Catch

----------------------------------------------------------------------------
(* Claims about error attribution                                          *)

Handlers == {"trace_user_frame", "custom_trace"}

\* the number of entries of s equal to x
RECURSIVE Count(_, _)
Count(x, s) ==
    IF s = <<>> THEN 0
    ELSE (IF Head(s) = x THEN 1 ELSE 0) + Count(x, Tail(s))

\* an operation decorated with trace_user_frame raised e, not yet wrapped,
\* and a user frame was found
FirstWrap ==
    /\ tres.op = "trace_user_frame"
    /\ ~IsWrapped(tres.e)
    /\ tres.trace.user_frame # NoFrame

SameCatchers(e1, e2) ==
    \A cls \in CatchClasses : IsInstance(e1, cls) <=> IsInstance(e2, cls)

\* C2: the exception that leaves a decorated operation which raised e, a
\* user frame being found, is an instance of a subclass of type(e) with the
\* name, qualified name and module of type(e); its message is str(e)
\* followed by the Occurred here section of the user frame; and the except
\* clauses that catch it are those that catch e.
C2_WrappedSameKind ==
    FirstWrap =>
        /\ IsInstance(tres.raised, tres.e.type.mro[1])
        /\ tres.raised.type.mro # tres.e.type.mro
        /\ tres.raised.type.name = tres.e.type.name
        /\ tres.raised.type.qualname = tres.e.type.qualname
        /\ tres.raised.type.module = tres.e.type.module
        /\ Str(tres.raised)
              = Str(tres.e) \o <<"\n">> \o format_frame(tres.trace.user_frame)
        /\ SameCatchers(tres.e, tres.raised)

\* C3: a wrapped exception leaves every further layer as the same object;
\* an exception for which no user frame is found leaves as the same object;
\* and the message of an exception in flight holds one Occurred here section
\* if it is wrapped and none if it is not.
C3_WrapOnce ==
    /\ (tres.op \in Handlers /\ IsWrapped(tres.e)) => tres.raised = tres.e
    /\ (tres.op \in Handlers /\ ~IsWrapped(tres.e)
           /\ tres.trace.user_frame = NoFrame) => tres.raised = tres.e
    /\ exc # NoExc =>
          Count("Occurred here:", Str(exc)) = (IF IsWrapped(exc) THEN 1 ELSE 0)

\* a wrapped exception has just passed a further layer, with other layers
\* still around it
C3_Witness ==
    /\ tres.op \in Handlers
    /\ IsWrapped(tres.e)
    /\ tres.raised = tres.e
    /\ pc = "raising"
    /\ \E i \in 1..Len(stack) : is_marker(stack[i].frame)

FirstMarker(frames) ==
    IF \E i \in 1..Len(frames) : is_marker(frames[i])
    THEN CHOOSE i \in 1..Len(frames) :
            /\ is_marker(frames[i])
            /\ \A j \in 1..(i - 1) : ~is_marker(frames[j])
    ELSE Len(frames) + 1

SetMax(S) == CHOOSE x \in S : \A y \in S : y <= x

\* the external frame nearest to the first marker of `frames`, on the near
\* side of it
LastExternalBeforeMarker(frames) ==
    LET ext == {i \in 1..(FirstMarker(frames) - 1) : is_external(frames[i])}
    IN  IF ext = {} THEN NoFrame ELSE frames[SetMax(ext)]

\* a from_traceback has just run
Scanned == tres.frames # <<>>

\* C4 as stated: the frames are scanned innermost to outermost, and the user
\* frame is the last external frame seen before a marker frame.
C4_InnermostFirst ==
    Scanned =>
        tres.trace.user_frame = LastExternalBeforeMarker(Reverse(tres.frames))

\* C4 as amended: the frames are scanned outermost to innermost, and the
\* user frame is the last external frame seen before the first marker frame;
\* no frame beyond that marker is the user frame, and without an external
\* frame before it there is none.
C4_OutermostFirst ==
    Scanned =>
        tres.trace.user_frame = LastExternalBeforeMarker(tres.frames)

\* a scan with external frames on both sides of the marker
C4_Witness ==
    /\ Scanned
    /\ tres.trace.user_frame # NoFrame
    /\ \E i, j \in 1..Len(tres.frames) :
          /\ i < FirstMarker(tres.frames)
          /\ i < j
          /\ FirstMarker(tres.frames) < j
          /\ is_external(tres.frames[i])
          /\ is_external(tres.frames[j])
          /\ tres.frames[i] # tres.frames[j]

\* a handler has just raised a wrapper in place of the exception it caught
Rewrapped ==
    /\ tres.op \in Handlers
    /\ tres.raised # tres.e

\* the last n entries of a traceback
LastEntries(traceback, n) ==
    SubSeq(traceback, Len(traceback) - n + 1, Len(traceback))

\* C17 as stated: the wrapper leaves the handler with a traceback in which
\* every entry of the traceback of the original exception is present, as
\* often as it is there, and with the cause of the original as its cause.
C17_WholeTracebackKept ==
    Rewrapped =>
        /\ \A i \in 1..Len(tres.e_traceback) :
              Count(tres.e_traceback[i], tb)
                  >= Count(tres.e_traceback[i], tres.e_traceback)
        /\ exc.cause = tres.e.cause

\* C17: the wrapper leaves the handler with a traceback that ends with the
\* traceback of the original exception less its first entry, the entry of
\* the handler's own frame, which is not kept, and with the cause of the
\* original as its cause.
C17_TracebackKeptButFirst ==
    Rewrapped =>
        /\ Len(tb) > Len(tres.e_traceback)
        /\ LastEntries(tb, Len(tres.e_traceback) - 1) = Tail(tres.e_traceback)
        /\ LastEntries(tb, Len(tres.e_traceback)) # tres.e_traceback
        /\ tres.e_traceback[1].function
              \in {MarkerFrame.function, CustomTraceFrame.function}
        /\ exc.cause = tres.e.cause

\* an exception with a cause, raised two calls below the handler, has been
\* wrapped
C17_Witness ==
    /\ Rewrapped
    /\ Len(tres.e_traceback) >= 3
    /\ tres.e.cause # "None"
    /\ pc = "raising"

\* an exception has just left a custom_trace block
LeftCustomTrace == tres.op = "custom_trace"

\* the message of e is that of `original` followed by the Occurred here
\* section of `frame`
AttributedTo(e, original, frame) ==
    /\ IsWrapped(e)
    /\ Str(e) = Str(original) \o <<"\n">> \o format_frame(frame)

\* the message of e ends with the Occurred here section of `frame`
NamesFrame(e, frame) ==
    /\ IsWrapped(e)
    /\ Len(Str(e)) >= Len(format_frame(frame))
    /\ LastEntries(Str(e), Len(format_frame(frame))) = format_frame(frame)

\* the user frame the call stack gives at the time the block is left
DerivedUserFrame ==
    from_traceback(Append(StackFrames(stack), ReraiseFrame)).user_frame

\* C18 as stated: an exception that leaves a custom_trace block is
\* attributed to the user frame of the trace given to the block when that
\* trace has one, and is the exception that was raised, unchanged, when it
\* has none.
C18_AlwaysGivenTrace ==
    LeftCustomTrace =>
        /\ tres.given.user_frame # NoFrame =>
              /\ NamesFrame(exc, tres.given.user_frame)
              /\ tres.frames = <<>>
        /\ tres.given.user_frame = NoFrame => exc = tres.e

\* C18: an exception not yet wrapped that leaves a custom_trace block is
\* attributed to the user frame of the trace given to the block, no frame
\* of the call stack being scanned, when that trace has a user frame; an
\* exception already wrapped, or one leaving a block whose trace has no
\* user frame, leaves as the same exception with the traceback it had.
C18_GivenTraceUnlessWrapped ==
    LeftCustomTrace =>
        /\ (~IsWrapped(tres.e) /\ tres.given.user_frame # NoFrame) =>
              /\ AttributedTo(exc, tres.e, tres.given.user_frame)
              /\ tres.trace = tres.given
              /\ tres.frames = <<>>
        /\ (IsWrapped(tres.e) \/ tres.given.user_frame = NoFrame) =>
              /\ exc = tres.e
              /\ tb = Tail(tres.e_traceback)

\* an exception has been attributed to the user frame of the given trace
\* where the call stack at the time gives another user frame
C18_Witness ==
    /\ LeftCustomTrace
    /\ ~IsWrapped(tres.e)
    /\ tres.given.user_frame # NoFrame
    /\ DerivedUserFrame # NoFrame
    /\ DerivedUserFrame # tres.given.user_frame
    /\ AttributedTo(exc, tres.e, tres.given.user_frame)

\* the paths named for internal frames: this layer, its connectors, its
\* test harness, and the wrapper of a runtime type check
InternalPaths ==
    {<<"pathway/internals">>, <<"pathway/io">>, <<"pathway/stdlib">>,
     <<"pathway/debug">>, <<"pathway/tests">>, <<"@beartype">>}

UnderInternalPath(frame) ==
    \E path \in InternalPaths : Contains(frame.filename, path)

\* a test module of the test harness
IsTestModule(frame) ==
    Contains(frame.filename, <<"pathway/tests", "/test_">>)

\* C19 as stated: of the frames scanned, those under one of the internal
\* paths are internal and the others external, and the user frame recorded
\* is under none of the internal paths.
C19_InternalPaths ==
    Scanned =>
        /\ \A i \in 1..Len(tres.frames) :
              is_external(tres.frames[i]) <=> ~UnderInternalPath(tres.frames[i])
        /\ tres.trace.user_frame # NoFrame =>
              ~UnderInternalPath(tres.trace.user_frame)

\* C19: of the frames scanned, those under one of the internal paths are
\* internal, except the test modules of the test harness, which are
\* external like the frames under none of these paths; and the user frame
\* recorded is one of the external frames scanned.
C19_InternalPathsButTestModules ==
    Scanned =>
        /\ \A i \in 1..Len(tres.frames) :
              is_external(tres.frames[i])
                  <=> (~UnderInternalPath(tres.frames[i])
                          \/ IsTestModule(tres.frames[i]))
        /\ tres.trace.user_frame # NoFrame =>
              /\ \E i \in 1..Len(tres.frames) :
                    tres.frames[i] = tres.trace.user_frame
              /\ (~UnderInternalPath(tres.trace.user_frame)
                     \/ IsTestModule(tres.trace.user_frame))

\* a scan over a test module, a module of the test harness that is not a
\* test module, and a frame of user code, the test module being recorded
C19_Witness ==
    /\ Scanned
    /\ IsTestModule(tres.trace.user_frame)
    /\ \E i, j \in 1..Len(tres.frames) :
          /\ Contains(tres.frames[i].filename, <<"pathway/tests">>)
          /\ ~IsTestModule(tres.frames[i])
          /\ ~UnderInternalPath(tres.frames[j])

----------------------------------------------------------------------------
(* table_slice.py: TableSlice                                              *)

\* a str argument carries no table
NoTable == ""

ColumnReference(table, name) == [table |-> table, name |-> name]

StrArg(name) == [table |-> NoTable, name |-> name]

\* isinstance(arg, ColumnReference)
IsColumnReference(arg) == arg.table # NoTable

\* the instances of ThisMetaclass
ThisClasses == {"this", "left", "right"}

TableSlice(mapping, table) == [mapping |-> mapping, table |-> table]

NoSlice == TableSlice(0, NoTable)

\* TableSlice._normalize
\* _normalize taking the name of any column reference, whatever its table
normalize_any_table(self, arg) == [status |-> "ok", name |-> arg.name]

normalize(self, arg) ==
    IF IsColumnReference(arg)
    THEN IF arg.table \in ThisClasses
         THEN IF arg.table # "this"
              THEN [status |-> "ValueError", name |-> arg.name]
              ELSE [status |-> "ok", name |-> arg.name]
         ELSE IF arg.table # self.table
              THEN [status |-> "ValueError", name |-> arg.name]
              ELSE [status |-> "ok", name |-> arg.name]
    ELSE [status |-> "ok", name |-> arg.name]

\* the operation hands back the dict it was given
DictAlias(heap, id) == [heap |-> heap, id |-> id]

\* dict.copy(): a new dict object with the same items
DictCopy(heap, id) == [heap |-> Append(heap, heap[id]), id |-> Len(heap) + 1]

SliceRaise(status, heap) == [status |-> status, heap |-> heap, slice |-> NoSlice]

SliceReturns(heap, m, self) ==
    [status |-> "ok", heap |-> heap, slice |-> TableSlice(m, self.table)]

\* TableSlice.__getitem__ with a list: the dict comprehension, item by item
RECURSIVE GetitemLoop(_, _, _, _)
GetitemLoop(self, arg, heap, d) ==
    IF arg = <<>>
    THEN SliceReturns(Append(heap, d), Len(heap) + 1, self)
    ELSE LET k == Head(arg)
             key == normalize(self, k)
         IN  IF key.status # "ok"
             THEN SliceRaise(key.status, heap)
             ELSE IF ~Has(heap[self.mapping], key.name)
                  THEN SliceRaise("KeyError", heap)
                  ELSE GetitemLoop(self, Tail(arg), heap,
                           Put(d, key.name, Get(heap[self.mapping], key.name)))

getitem(self, arg, heap) == GetitemLoop(self, arg, heap, <<>>)

\* TableSlice.without: the loop over cols on the copied mapping m
RECURSIVE WithoutLoop(_, _, _, _)
WithoutLoop(self, cols, heap, m) ==
    IF cols = <<>>
    THEN SliceReturns(heap, m, self)
    ELSE LET colname == normalize(self, Head(cols))
         IN  IF colname.status # "ok"
             THEN SliceRaise(colname.status, heap)
             ELSE IF ~Has(heap[m], colname.name)
                  THEN SliceRaise("KeyError", heap)
                  ELSE WithoutLoop(self, Tail(cols),
                           [heap EXCEPT ![m] = Pop(@, colname.name)], m)

\* without looking every column up in the mapping of the slice itself, so
\* that a column named twice is found twice
RECURSIVE WithoutLoopOnSelf(_, _, _, _)
WithoutLoopOnSelf(self, cols, heap, m) ==
    IF cols = <<>>
    THEN SliceReturns(heap, m, self)
    ELSE LET colname == normalize(self, Head(cols))
         IN  IF colname.status # "ok"
             THEN SliceRaise(colname.status, heap)
             ELSE IF ~Has(heap[self.mapping], colname.name)
                  THEN SliceRaise("KeyError", heap)
                  ELSE WithoutLoopOnSelf(self, Tail(cols),
                           [heap EXCEPT ![m] = Pop(@, colname.name)], m)

without_on_self(self, cols, heap) ==
    LET mapping == DictCopy(heap, self.mapping)
    IN  WithoutLoopOnSelf(self, cols, mapping.heap, mapping.id)

without(self, cols, heap) ==
    LET mapping == DictCopy(heap, self.mapping)
    IN  WithoutLoop(self, cols, mapping.heap, mapping.id)

\* TableSlice.rename: rename_dict_normalized, item by item
RECURSIVE NormalizeDict(_, _, _)
NormalizeDict(self, items, d) ==
    IF items = <<>>
    THEN [status |-> "ok", dict |-> d]
    ELSE LET old == normalize(self, Head(items)[1])
             new == normalize(self, Head(items)[2])
         IN  IF old.status # "ok"
             THEN [status |-> old.status, dict |-> d]
             ELSE IF new.status # "ok"
                  THEN [status |-> new.status, dict |-> d]
                  ELSE NormalizeDict(self, Tail(items), Put(d, old.name, new.name))

\* TableSlice.rename: the loop that pops the old names
RECURSIVE RenamePopLoop(_, _, _)
RenamePopLoop(olds, heap, m) ==
    IF olds = <<>>
    THEN [status |-> "ok", heap |-> heap]
    ELSE IF ~Has(heap[m], Head(olds))
         THEN [status |-> "KeyError", heap |-> heap]
         ELSE RenamePopLoop(Tail(olds), [heap EXCEPT ![m] = Pop(@, Head(olds))], m)

\* TableSlice.rename: the loop that binds the new names
RECURSIVE RenamePutLoop(_, _, _, _)
RenamePutLoop(self, items, heap, m) ==
    IF items = <<>>
    THEN SliceReturns(heap, m, self)
    ELSE LET old == Head(items)[1]
             new == Head(items)[2]
         IN  IF ~Has(heap[self.mapping], old)
             THEN SliceRaise("KeyError", heap)
             ELSE RenamePutLoop(self, Tail(items),
                      [heap EXCEPT ![m] = Put(@, new, Get(heap[self.mapping], old))],
                      m)

rename(self, rename_dict, heap) ==
    LET rename_dict_normalized == NormalizeDict(self, rename_dict, <<>>)
    IN  IF rename_dict_normalized.status # "ok"
        THEN SliceRaise(rename_dict_normalized.status, heap)
        ELSE LET mapping == DictCopy(heap, self.mapping)
                 popped == RenamePopLoop(Keys(rename_dict_normalized.dict),
                                         mapping.heap, mapping.id)
             IN  IF popped.status # "ok"
                 THEN SliceRaise(popped.status, popped.heap)
                 ELSE RenamePutLoop(self, rename_dict_normalized.dict,
                                    popped.heap, mapping.id)

with_prefix(self, prefix, heap) ==
    rename(self,
           [i \in 1..Len(heap[self.mapping]) |->
               <<StrArg(heap[self.mapping][i][1]),
                 StrArg(prefix \o heap[self.mapping][i][1])>>],
           heap)

with_suffix(self, suffix, heap) ==
    rename(self,
           [i \in 1..Len(heap[self.mapping]) |->
               <<StrArg(heap[self.mapping][i][1]),
                 StrArg(heap[self.mapping][i][1] \o suffix)>>],
           heap)

----------------------------------------------------------------------------
(* The TableSlice program: slices of one table, derived from one another   *)

MaxSlices == 3

\* the table the slices are taken from, and another table
OwnTable == "T1"

OtherTable == "T2"

TableColumns == <<"a", "b", "c">>

\* Table.slice: every column of the table under its own name
TableSliceOf(table) ==
    [i \in 1..Len(TableColumns) |->
        <<TableColumns[i], ColumnReference(table, TableColumns[i])>>]

\* arguments that name one column
BadColumnArgs ==
    {StrArg("zz"), ColumnReference("left", "a"), ColumnReference(OtherTable, "a")}

\* a column the slice has not, named before and after a reference the slice
\* does not accept
MixedBadArgs ==
    {<<StrArg("zz"), ColumnReference("left", "a")>>,
     <<ColumnReference(OtherTable, "a"), StrArg("zz")>>}

WithoutInputs ==
    UNION {[1..n -> {StrArg("a"), ColumnReference("this", "b")}] : n \in 1..2}
        \cup {<<x>> : x \in BadColumnArgs}
        \cup {<<ColumnReference(OwnTable, "c"), StrArg("zz")>>}
        \cup MixedBadArgs

GetitemInputs ==
    UNION {[1..n -> {StrArg("b"), ColumnReference(OwnTable, "a")}] : n \in 1..2}
        \cup {<<x>> : x \in BadColumnArgs}
        \cup MixedBadArgs

NewNames == {StrArg("a"), StrArg("b"), StrArg("x")}

RenameInputs ==
    {<<<<old, new>>>> :
        old \in {StrArg("a"), ColumnReference("this", "b")} \cup BadColumnArgs,
        new \in {StrArg("x"), StrArg("b")}}
        \cup {<<<<StrArg("a"), n1>>, <<StrArg("b"), n2>>>> :
                 n1 \in NewNames, n2 \in NewNames}
        \cup {<<<<StrArg("a"), StrArg("x")>>,
                <<ColumnReference("this", "a"), StrArg("y")>>>>,
              <<<<StrArg("a"), ColumnReference("right", "x")>>>>,
              <<<<StrArg("c"), StrArg("zz")>>, <<StrArg("zz"), StrArg("c")>>>>}

Prefixes == {"p_"}

Suffixes == {"_s"}

NoSlres ==
    [op |-> "none", self |-> 0, args |-> <<>>, status |-> "none", result |-> 0]

\* the dict an operation built and dropped when it raised is collected
Collect(heap, n) == SubSeq(heap, 1, n)

SliceOp(op, i, args, r) ==
    /\ dicts' = IF r.status = "ok" THEN r.heap ELSE Collect(r.heap, Len(dicts))
    /\ slices' = IF r.status = "ok" THEN Append(slices, r.slice) ELSE slices
    /\ slres' = [op |-> op, self |-> i, args |-> args, status |-> r.status,
                 result |-> IF r.status = "ok" THEN Len(slices) + 1 ELSE 0]
    /\ UNCHANGED notSlice

SliceIdle == slres = NoSlres /\ Len(slices) < MaxSlices

Getitem ==
    /\ SliceIdle
    /\ \E i \in 1..Len(slices), arg \in GetitemInputs :
           SliceOp("getitem", i, arg, getitem(slices[i], arg, dicts))

Without ==
    /\ SliceIdle
    /\ \E i \in 1..Len(slices), cols \in WithoutInputs :
           SliceOp("without", i, cols, without(slices[i], cols, dicts))

Rename ==
    /\ SliceIdle
    /\ \E i \in 1..Len(slices), rename_dict \in RenameInputs :
           SliceOp("rename", i, rename_dict, rename(slices[i], rename_dict, dicts))

WithPrefix ==
    /\ SliceIdle
    /\ \E i \in 1..Len(slices), prefix \in Prefixes :
           SliceOp("with_prefix", i, <<StrArg(prefix)>>,
                   with_prefix(slices[i], prefix, dicts))

WithSuffix ==
    /\ SliceIdle
    /\ \E i \in 1..Len(slices), suffix \in Suffixes :
           SliceOp("with_suffix", i, <<StrArg(suffix)>>,
                   with_suffix(slices[i], suffix, dicts))

\* the caller takes the result; the next operation may start
SliceReturn ==
    /\ slres # NoSlres
    /\ slres' = NoSlres
    /\ UNCHANGED <<dicts, slices>>
    /\ UNCHANGED notSlice

SliceInit ==
    /\ dicts = <<TableSliceOf(OwnTable)>>
    /\ slices = <<TableSlice(1, OwnTable)>>
    /\ slres = NoSlres

SliceNext ==
    \/ Getitem
    \/ Without
    \/ Rename
    \/ WithPrefix
    \/ WithSuffix
    \/ SliceReturn

----------------------------------------------------------------------------
(* TableSlice: the claims                                                  *)

Values(d) == [i \in 1..Len(d) |-> d[i][2]]

Pos(s, x) == CHOOSE i \in 1..Len(s) : s[i] = x

SliceMapping(i) == dicts[slices[i].mapping]

\* C5: without, rename, with_prefix, with_suffix and list-indexing never
\* modify a slice that exists, whether they succeed or fail, and a
\* successful one returns a new TableSlice, on a dict of its own, bound to
\* the table of the slice it was called on.
C5_SliceStep ==
    /\ Len(slices') >= Len(slices)
    /\ \A i \in 1..Len(slices) :
           /\ slices'[i] = slices[i]
           /\ dicts'[slices[i].mapping] = dicts[slices[i].mapping]
    /\ (slres'.op # "none" /\ slres'.status = "ok") =>
           /\ Len(slices') = Len(slices) + 1
           /\ slices'[Len(slices')].table = slices[slres'.self].table
           /\ \A i \in 1..Len(slices) :
                  slices'[Len(slices')].mapping # slices[i].mapping
    /\ (slres'.op # "none" /\ slres'.status # "ok") => slices' = slices

C5_SlicesNotModified == [][C5_SliceStep]_vars

C5_Witness ==
    /\ Len(slices) >= 2
    /\ slres.op = "rename"
    /\ slres.status = "KeyError"
    /\ slres.self = 2
    /\ SliceMapping(2) # SliceMapping(1)

\* C6: the columns of the result of without, rename, with_prefix and
\* with_suffix come in the relative order they have in the slice the
\* operation was applied to.
C6_OrderPreserved ==
    (slres.op \in {"without", "rename", "with_prefix", "with_suffix"}
        /\ slres.status = "ok") =>
        LET src == Values(SliceMapping(slres.self))
            res == Values(SliceMapping(slres.result))
        IN  \A i, j \in 1..Len(res) :
                i < j => Pos(src, res[i]) < Pos(src, res[j])

\* the slice the last operation was called on
SliceSelf == slices[slres.self]

\* the arguments of the last without, and the old and the new names of the
\* last rename, as they were written
NamedArgs ==
    IF slres.op = "without" THEN slres.args
    ELSE [i \in 1..Len(slres.args) |-> slres.args[i][1]]

NewNameArgs == [i \in 1..Len(slres.args) |-> slres.args[i][2]]

\* every argument of the last without or rename is one _normalize accepts
ArgsNormalize ==
    /\ \A i \in 1..Len(NamedArgs) :
           normalize(SliceSelf, NamedArgs[i]).status = "ok"
    /\ slres.op = "rename" =>
           \A i \in 1..Len(NewNameArgs) :
               normalize(SliceSelf, NewNameArgs[i]).status = "ok"

\* the column the i-th argument names
NamedColumn(i) == normalize(SliceSelf, NamedArgs[i]).name

\* a column named is not in the mapping of the slice
NamesAbsentColumn ==
    \E i \in 1..Len(NamedArgs) : ~Has(SliceMapping(slres.self), NamedColumn(i))

\* a column is named twice
NamesColumnTwice ==
    \E i, j \in 1..Len(NamedArgs) : i < j /\ NamedColumn(i) = NamedColumn(j)

\* C20: a without or rename whose arguments _normalize accepts raises
\* KeyError and returns no slice when a column it names is not in the
\* mapping of the slice, or, for without, when it names a column twice;
\* otherwise it succeeds and returns a slice.
C20_AbsentColumnKeyError ==
    (slres.op \in {"without", "rename"} /\ ArgsNormalize) =>
        IF NamesAbsentColumn \/ (slres.op = "without" /\ NamesColumnTwice)
        THEN slres.status = "KeyError" /\ slres.result = 0
        ELSE /\ slres.status = "ok"
             /\ slres.result \in 1..Len(slices)
             /\ slres.result # slres.self

\* a without naming twice a column the slice has, on a slice that is itself
\* the result of an operation
C20_Witness ==
    /\ slres.op = "without"
    /\ slres.self >= 2
    /\ ArgsNormalize
    /\ NamesColumnTwice
    /\ ~NamesAbsentColumn
    /\ slres.status = "KeyError"

\* the arguments of the last operation that _normalize is given, in the
\* order it is given them
NormalizedArgs ==
    IF slres.op = "rename"
    THEN Concat([i \in 1..Len(slres.args) |->
                    <<slres.args[i][1], slres.args[i][2]>>])
    ELSE slres.args

\* a plain string, a reference through this, or a reference to the table of
\* the slice
AcceptedArg(self, arg) ==
    \/ ~IsColumnReference(arg)
    \/ arg.table = "this"
    \/ arg.table \notin ThisClasses /\ arg.table = self.table

\* the first argument that is not accepted comes before any argument that
\* names a column the slice has not
RejectedFirst ==
    \E i \in 1..Len(NormalizedArgs) :
        /\ ~AcceptedArg(SliceSelf, NormalizedArgs[i])
        /\ \A j \in 1..(i - 1) :
               /\ AcceptedArg(SliceSelf, NormalizedArgs[j])
               /\ Has(SliceMapping(slres.self), NormalizedArgs[j].name)

Renaming == NormalizeDict(SliceSelf, slres.args, <<>>).dict

\* C29: after a successful rename every new name is bound, in the result,
\* to the reference the slice had under an old name renamed to it; every
\* column of the slice that is not renamed is in the result under its name
\* with its reference; and when the new names are pairwise distinct and none
\* is the name of a column not renamed, the result has as many columns as
\* the slice.
C29_SimultaneousRename ==
    (slres.op = "rename" /\ slres.status = "ok") =>
        LET src == SliceMapping(slres.self)
            res == SliceMapping(slres.result)
            kept == KeySet(src) \ KeySet(Renaming)
        IN  /\ \A new \in {Renaming[i][2] : i \in 1..Len(Renaming)} :
                   /\ Has(res, new)
                   /\ \E i \in 1..Len(Renaming) :
                          /\ Renaming[i][2] = new
                          /\ Get(res, new) = Get(src, Renaming[i][1])
            /\ \A k \in kept : Has(res, k) /\ Get(res, k) = Get(src, k)
            /\ ((\A i, j \in 1..Len(Renaming) :
                     i # j => Renaming[i][2] # Renaming[j][2])
                  /\ \A i \in 1..Len(Renaming) : Renaming[i][2] \notin kept)
                  => Len(res) = Len(src)

----------------------------------------------------------------------------
(* row_transformer.py: ClassArg and its attributes                         *)

\* schema_from_types(**kwargs)
schema_from_types(kwargs, heap) == schema_builder_(kwargs, <<>>, heap)

\* inspect.Signature.empty, the return annotation of an unannotated function
EMPTY == [base |-> "_empty", opt |-> FALSE]

DTypeName(t) == IF t.opt THEN "Optional[" \o t.base \o "]" ELSE t.base

\* typing.Callable[..., t]
CallableOf(t) == [base |-> "Callable[..., " \o DTypeName(t) \o "]", opt |-> FALSE]

\* params.get("output_name") absent
NoOutputName == ""

\* an attribute object once __set_name__ has bound its name; dtype and
\* output_name are the decorator's params (NoDType, NoOutputName: not given),
\* annotation is the return annotation of func
AttributeObject(kind, name, dtype, output_name, annotation) ==
    [kind |-> kind, name |-> name, dtype |-> dtype,
     output_name |-> output_name, annotation |-> annotation]

\* isinstance(attr, AbstractOutputAttribute)
IsOutputAttribute(attr) == attr.kind \in {"OutputAttribute", "Method"}

\* ToBeComputedAttribute.output_name
output_name(attr) ==
    IF attr.output_name # NoOutputName THEN attr.output_name ELSE attr.name

\* AbstractAttribute.dtype
AbstractAttribute_dtype(attr) == DType(ANY)

\* ToBeComputedAttribute.dtype
ToBeComputedAttribute_dtype(attr) ==
    IF attr.dtype # NoDType THEN attr.dtype ELSE attr.annotation

\* a method typed as an output attribute is
BareDtype(attr) == ToBeComputedAttribute_dtype(attr)

\* Method.dtype
Method_dtype(attr) == DType(CallableOf(ToBeComputedAttribute_dtype(attr)))

\* attr.dtype, by the class of attr
attr_dtype(attr) ==
    IF attr.kind = "Method" THEN Method_dtype(attr)
    ELSE IF attr.kind \in {"Attribute", "OutputAttribute"}
         THEN ToBeComputedAttribute_dtype(attr)
         ELSE AbstractAttribute_dtype(attr)

\* the member names this model uses, in the order dir() lists them (sorted)
DirOrder == <<"arg", "cb", "edges", "fun", "nodes", "ret", "table", "tmp", "val">>

\* isinstance(attr, type_) for the members of a class body
InstanceOf(attr, type_) ==
    IF type_ = "AbstractAttribute"
    THEN attr.kind \in {"InputAttribute", "InputMethod", "Attribute",
                        "OutputAttribute", "Method"}
    ELSE attr.kind = type_

\* attrs_of_type(cls, type_): the members of the class body (name -> value)
\* that are instances of type_, in the order of dir(cls)
attrs_of_type(body, type_) ==
    LET names == SelectSeq(DirOrder,
                     LAMBDA n : Has(body, n) /\ InstanceOf(Get(body, n), type_))
    IN  [i \in 1..Len(names) |-> Get(body, names[i])]

\* {f(x): g(x) for x in xs}, item by item
RECURSIVE DictComprehension(_, _)
DictComprehension(items, d) ==
    IF items = <<>> THEN d
    ELSE DictComprehension(Tail(items), Put(d, Head(items)[1], Head(items)[2]))

\* ClassArgMeta._output_attributes
output_attributes(attributes) ==
    SelectSeq(attributes, LAMBDA p : IsOutputAttribute(p[2]))

\* the check of the derived schema against output= read the other way round
OutputSchemaValidReversed(output_schema, output, heap) ==
    is_subschema(output, output_schema, heap)

\* schema.is_subschema(cls.output_schema, output)
OutputSchemaValid(output_schema, output, heap) ==
    is_subschema(output_schema, output, heap)

\* ClassArg.__init_subclass__(input=Any, output=...): output is a Schema, or
\* not given (Any); the class with its _attributes and output_schema, or the
\* exception raised
init_subclass(body, given, output, heap) ==
    LET attrs == attrs_of_type(body, "AbstractAttribute")
        attributes ==
            DictComprehension([i \in 1..Len(attrs) |-> <<attrs[i].name, attrs[i]>>],
                              <<>>)
        outs == output_attributes(attributes)
        kwargs ==
            DictComprehension(
                [i \in 1..Len(outs) |->
                    <<output_name(outs[i][2]), attr_dtype(outs[i][2])>>], <<>>)
        r == schema_from_types(kwargs, heap)
    IN  [status |->
             IF r.status # "ok" THEN r.status
             ELSE IF given /\ ~OutputSchemaValid(r.schema, output, r.heap)
                  THEN "RuntimeError"
                  ELSE "ok",
         attributes |-> attributes,
         output_schema |-> as_dict(r.schema, r.heap)]

----------------------------------------------------------------------------
(* row_transformer.py: RowTransformer                                      *)

RowTransformer(name, args) == [name |-> name, args |-> args]

NoTransformer == RowTransformer("", <<>>)

\* RowTransformer.from_class: the ClassArg members of the class, by name
from_class(name, body) ==
    LET args == attrs_of_type(body, "ClassArgMeta")
    IN  RowTransformer(name,
            DictComprehension([i \in 1..Len(args) |-> <<args[i].name, args[i]>>],
                              <<>>))

\* RowTransformer.class_args: every arg is a subclass of ClassArg
class_args(self) == self.args

Min(a, b) == IF a < b THEN a ELSE b

\* RowTransformer._match_args_to_properties: the zip over the positional
\* arguments, then result.update(kwargs); the last loop tests the keys of
\* result, which are never tables, and does nothing
RECURSIVE MatchLoop(_, _, _, _, _)
MatchLoop(self, args, kwargs, i, result) ==
    IF i > Min(Len(args), Len(self.args))
    THEN [status |-> "ok",
          result |-> DictComprehension(kwargs, result)]
    ELSE LET param_name == self.args[i][1]
         IN  IF Has(kwargs, param_name)
             THEN [status |-> "AssertionError", result |-> result]
             ELSE MatchLoop(self, args, kwargs, i + 1,
                            Put(result, param_name, args[i]))

match_args_to_properties(self, args, kwargs) ==
    MatchLoop(self, args, kwargs, 1, <<>>)

\* RowTransformer.__call__: the operator added to the graph, or the exception
call(self, args, kwargs) ==
    LET matched_args == match_args_to_properties(self, args, kwargs)
        tables == SelectSeq(matched_args.result,
                            LAMBDA p : Has(class_args(self), p[1]))
    IN  IF matched_args.status # "ok"
        THEN [status |-> matched_args.status, tables |-> <<>>]
        ELSE IF Len(tables) # Len(class_args(self))
             THEN [status |-> "AssertionError", tables |-> <<>>]
             ELSE [status |-> "ok", tables |-> tables]

----------------------------------------------------------------------------
(* The row transformer program: ClassArg declarations, and calls of a      *)
(* transformer built from a class                                          *)

MaxAttrs == 2

MaxClassArgs == 2

MaxPositional == 3

MaxOps == 2

\* the attributes a class body is made of
AttributeInputs ==
    {AttributeObject("InputAttribute", "arg", NoDType, NoOutputName, EMPTY),
     AttributeObject("InputMethod", "cb", INT, NoOutputName, EMPTY),
     AttributeObject("Attribute", "tmp", NoDType, NoOutputName, INT),
     AttributeObject("OutputAttribute", "ret", NoDType, NoOutputName, INT),
     AttributeObject("OutputAttribute", "ret", FLOAT, NoOutputName, INT),
     AttributeObject("OutputAttribute", "ret", NoDType, NoOutputName, EMPTY),
     AttributeObject("OutputAttribute", "val", NoDType, "ret", FLOAT),
     AttributeObject("Method", "fun", NoDType, NoOutputName, INT)}

\* class bodies: attributes under pairwise distinct names, in definition order
ClassBodies ==
    {[i \in 1..Len(s) |-> <<s[i].name, s[i]>>] :
        s \in {t \in DistinctSeqs(AttributeInputs, 1, MaxAttrs) :
                  \A i, j \in 1..Len(t) : i # j => t[i].name # t[j].name}}

\* the keyword arguments of the schema given as output=
ExpectedInputs == OrderedDicts({"ret", "fun"}, {INT, FLOAT, CallableOf(INT)})

\* the ClassArg of the module's docstring: one input, one output attribute
ExampleBody ==
    <<<<"arg", AttributeObject("InputAttribute", "arg", NoDType, NoOutputName, EMPTY)>>,
      <<"ret", AttributeObject("OutputAttribute", "ret", NoDType, NoOutputName, INT)>>>>

\* a ClassArg subclass bound to its name in the transformer class
ClassArgClass(name) ==
    [kind |-> "ClassArgMeta", name |-> name,
     attributes |-> init_subclass(ExampleBody, FALSE, NoSchema, <<>>).attributes]

ClassArgNames == {"edges", "nodes", "table"}

\* keyword arguments of a call: declared names and one that is not
KwargsInputs ==
    {<<>>} \cup OrderedDicts(ClassArgNames \cup {"other"}, {0})

NoRtres ==
    [op |-> "none", status |-> "none", body |-> <<>>, given |-> FALSE,
     expected |-> <<>>, attributes |-> <<>>, output_schema |-> <<>>,
     args |-> <<>>, kwargs |-> <<>>, added |-> 0]

\* class C(pw.ClassArg, output=schema_from_types(**expected)): ...
\* the schemas built on the way live and die with the declaration
DeclareClassArg ==
    /\ rtres = NoRtres
    /\ \E body \in ClassBodies, expected \in {<<>>} \cup ExpectedInputs,
          given \in BOOLEAN :
           /\ given = (expected # <<>>)
           /\ LET output == schema_from_types(expected, cdefs)
                  r == init_subclass(body, given, output.schema, output.heap)
              IN  rtres' = [NoRtres EXCEPT !.op = "declare",
                                           !.status = r.status,
                                           !.body = body,
                                           !.given = given,
                                           !.expected = expected,
                                           !.attributes = r.attributes,
                                           !.output_schema = r.output_schema]
    /\ UNCHANGED <<transformer, graph>>
    /\ UNCHANGED notRT

\* @transformer on a class with these ClassArg members
FromClass ==
    /\ rtres = NoRtres
    /\ transformer = NoTransformer
    /\ \E names \in DistinctSeqs(ClassArgNames, 0, MaxClassArgs) :
           transformer' =
               from_class("tr", [i \in 1..Len(names) |->
                                    <<names[i], ClassArgClass(names[i])>>])
    /\ UNCHANGED <<graph, rtres>>
    /\ UNCHANGED notRT

\* transformer(*args, **kwargs): the i-th positional table is table i, a
\* keyword table is table 0
Invoke ==
    /\ rtres = NoRtres
    /\ transformer # NoTransformer
    /\ Len(graph) < MaxOps
    /\ \E n \in 0..MaxPositional, kwargs \in KwargsInputs :
           LET args == [i \in 1..n |-> i]
               r == call(transformer, args, kwargs)
           IN  /\ graph' = IF r.status = "ok"
                           THEN Append(graph, [transformer |-> transformer.name,
                                               tables |-> r.tables])
                           ELSE graph
               /\ rtres' = [NoRtres EXCEPT !.op = "call",
                                           !.status = r.status,
                                           !.args = args,
                                           !.kwargs = kwargs,
                                           !.added = Len(graph') - Len(graph)]
    /\ UNCHANGED transformer
    /\ UNCHANGED notRT

RTReturn ==
    /\ rtres # NoRtres
    /\ rtres' = NoRtres
    /\ UNCHANGED <<transformer, graph>>
    /\ UNCHANGED notRT

RTInit ==
    /\ transformer = NoTransformer
    /\ graph = <<>>
    /\ rtres = NoRtres

ClassArgNext ==
    \/ DeclareClassArg
    \/ RTReturn

RTNext ==
    \/ FromClass
    \/ Invoke
    \/ RTReturn

----------------------------------------------------------------------------
(* Row transformers: the claims                                            *)

Declared == Keys(transformer.args)

\* the number of tables the last call gave to the i-th declared ClassArg
TablesFor(i) ==
    (IF i <= Len(rtres.args) THEN 1 ELSE 0)
        + (IF Has(rtres.kwargs, Declared[i]) THEN 1 ELSE 0)

ExactTables ==
    /\ Len(rtres.args) <= Len(Declared)
    /\ KeySet(rtres.kwargs) \subseteq KeySet(transformer.args)
    /\ \A i \in 1..Len(Declared) : TablesFor(i) = 1

\* C7: a call of a RowTransformer succeeds only if every declared ClassArg
\* receives exactly one table, with no surplus positional table and no
\* keyword that is not a declared name; a failing call adds no operator.
C7_CallNeedsExactTables ==
    rtres.op = "call" =>
        /\ rtres.status = "ok" => ExactTables
        /\ rtres.status # "ok" => rtres.added = 0

\* the derived schema d is a subschema of the expected schema e
Assignable(d, e) ==
    /\ KeySet(d) = KeySet(e)
    /\ \A k \in KeySet(d) : dtype_issubclass(Get(d, k), Get(e, k))

\* C8: a ClassArg declaration raises RuntimeError exactly when an expected
\* output schema is given and the schema derived from the output attributes
\* is not a subschema of it; otherwise it succeeds.
C8_OutputChecked ==
    rtres.op = "declare" =>
        /\ rtres.status \in {"ok", "RuntimeError"}
        /\ rtres.status = "RuntimeError" <=>
               (rtres.given /\ ~Assignable(rtres.output_schema, rtres.expected))

C8_Witness ==
    /\ rtres.op = "declare"
    /\ rtres.status = "RuntimeError"
    /\ KeySet(rtres.output_schema) = KeySet(rtres.expected)
    /\ Assignable(rtres.expected, rtres.output_schema)

\* the output attributes and methods of the class body last declared
OutputAttrs ==
    {a \in {rtres.body[i][2] : i \in 1..Len(rtres.body)} :
        a.kind \in {"OutputAttribute", "Method"}}

OutName(a) == IF a.output_name # NoOutputName THEN a.output_name ELSE a.name

DeclaredOrAnnotated(a) == IF a.dtype # NoDType THEN a.dtype ELSE a.annotation

\* C9 as stated: one column per output attribute or method, named by its
\* output name and typed by its declared dtype or else its return annotation.
C9_OneColumnPerOutput ==
    (rtres.op = "declare" /\ rtres.status = "ok") =>
        /\ Len(rtres.output_schema) = Cardinality(OutputAttrs)
        /\ \A a \in OutputAttrs :
               /\ Has(rtres.output_schema, OutName(a))
               /\ Get(rtres.output_schema, OutName(a)) = DeclaredOrAnnotated(a)

ColumnType(a) ==
    IF a.kind = "Method"
    THEN CallableOf(DeclaredOrAnnotated(a))
    ELSE DeclaredOrAnnotated(a)

\* among the output attributes with output name n, the one whose own name
\* sorts last
LastNamed(n) ==
    CHOOSE a \in OutputAttrs :
        /\ OutName(a) = n
        /\ \A b \in OutputAttrs :
               OutName(b) = n => Pos(DirOrder, b.name) <= Pos(DirOrder, a.name)

\* C9: the output schema has exactly one column per distinct output name of
\* the output attributes and methods; an output attribute's column has its
\* declared dtype or else its return annotation, a method's column is a
\* callable returning that dtype, and of several attributes sharing an
\* output name the one whose name sorts last gives the dtype; other
\* attributes give no column.
C9_OneColumnPerOutputName ==
    (rtres.op = "declare" /\ rtres.status = "ok") =>
        /\ Len(rtres.output_schema) = Cardinality(KeySet(rtres.output_schema))
        /\ KeySet(rtres.output_schema) = {OutName(a) : a \in OutputAttrs}
        /\ \A n \in KeySet(rtres.output_schema) :
               Get(rtres.output_schema, n) = ColumnType(LastNamed(n))

C9_Witness ==
    /\ rtres.op = "declare"
    /\ rtres.status = "ok"
    /\ \E a, b \in OutputAttrs :
           /\ a.kind = "Method"
           /\ b.kind = "OutputAttribute"
           /\ b.dtype # NoDType
           /\ b.dtype # b.annotation

\* C24: the attribute mapping of a declared ClassArg lists the attributes
\* of the class body in the order in which the body defines them, each under
\* its own name, and the columns of the derived output schema come in the
\* order in which the body defines the attributes they are made from.
C24_DefinitionOrder ==
    (rtres.op = "declare" /\ rtres.status = "ok") =>
        /\ Keys(rtres.attributes) = Keys(rtres.body)
        /\ \A i \in 1..Len(rtres.attributes) :
               rtres.attributes[i][2].name = rtres.attributes[i][1]
        /\ \A i, j \in 1..Len(rtres.output_schema) :
               i < j =>
                  \E p, q \in 1..Len(rtres.body) :
                      /\ p < q
                      /\ rtres.body[p][2] \in OutputAttrs
                      /\ rtres.body[q][2] \in OutputAttrs
                      /\ OutName(rtres.body[p][2]) = rtres.output_schema[i][1]
                      /\ OutName(rtres.body[q][2]) = rtres.output_schema[j][1]

----------------------------------------------------------------------------
(* schema.py: what a schema says about its columns                         *)

\* the value is tested as a Python condition would test it
TruthyDefault(column) == column.default_value \notin {"undefined", "None", "0", "False", "''"}

\* ColumnDefinition.has_default_value
has_default_value(column) == column.default_value # no_default_value_marker

\* the names are returned even when there are none
PkeyFieldsAlways(pkey_fields) == [is_none |-> FALSE, list |-> pkey_fields]

\* pkey_fields if pkey_fields else None
PkeyFieldsOrNone(pkey_fields) ==
    [is_none |-> pkey_fields = <<>>, list |-> pkey_fields]

\* SchemaMetaclass.primary_key_columns
primary_key_columns(schema, heap) ==
    PkeyFieldsOrNone(Keys(SelectSeq(schema.columns,
                                    LAMBDA p : heap[p[2]].primary_key)))

\* SchemaMetaclass.default_values
default_values(schema, heap) ==
    LET with_default == SelectSeq(schema.columns,
                                  LAMBDA p : has_default_value(heap[p[2]]))
    IN  [i \in 1..Len(with_default) |->
            <<with_default[i][1], heap[with_default[i][2]].default_value>>]

\* SchemaMetaclass.column_names
column_names(schema, heap) == Keys(as_dict(schema, heap))

\* SchemaMetaclass.types
types(schema, heap) ==
    [i \in 1..Len(as_dict(schema, heap)) |-> as_dict(schema, heap)[i][2]]

----------------------------------------------------------------------------
(* Schema classes declared member by member                                *)

\* a member without annotation, a member without value
NoAnnotation == [base |-> "", opt |-> FALSE]

NoValue == [kind |-> "none", id |-> 0]

\* a class member  name: annotation = value
Member(annotation, value) == [annotation |-> annotation, value |-> value]

\* default values, written as Python writes them
DefaultInputs == {"None", "0", "False", "''", "5", "'undefined'"}

\* the column definitions a member may be given
DefinitionInputs ==
    {column_definition(pk, no_default_value_marker, NoDType, NoName) :
        pk \in BOOLEAN}
      \cup {column_definition(FALSE, d, NoDType, NoName) : d \in DefaultInputs}
      \cup {column_definition(FALSE, no_default_value_marker, t, NoName) :
               t \in {INT, FLOAT}}
      \cup {column_definition(TRUE, "0", INT, "z"),
            column_definition(FALSE, no_default_value_marker, NoDType, "z")}

\* members: annotated or not, with a column definition, with a value that
\* is none (b = 5), or with no value
MemberInputs ==
    {Member(a, [kind |-> "cd", def |-> d]) :
        a \in {NoAnnotation, INT, ANY}, d \in DefinitionInputs}
      \cup {Member(a, [kind |-> "other"]) : a \in {NoAnnotation, INT}}
      \cup {Member(a, [kind |-> "none"]) : a \in {INT, ANY}}

MemberNames == {"a", "b"}

BodyInputs == OrderedDicts(MemberNames, MemberInputs)

\* cls.__annotations__: the annotated members, in the order of the body
BodyAnnotations(body) ==
    LET annotated == SelectSeq(body, LAMBDA p : p[2].annotation # NoAnnotation)
    IN  [i \in 1..Len(annotated) |-> <<annotated[i][1], annotated[i][2].annotation>>]

\* cls.__dict__: the members given a value, in the order of the body, the
\* column definitions as objects on the heap
RECURSIVE BodyFields(_, _, _)
BodyFields(body, fields, heap) ==
    IF body = <<>>
    THEN [fields |-> fields, heap |-> heap]
    ELSE LET name == Head(body)[1]
             value == Head(body)[2].value
         IN  IF value.kind = "none"
             THEN BodyFields(Tail(body), fields, heap)
             ELSE IF value.kind = "other"
                  THEN BodyFields(Tail(body), Append(fields, <<name, NotAColumn>>),
                                  heap)
                  ELSE BodyFields(Tail(body),
                                  Append(fields, <<name, CdRef(Len(heap) + 1)>>),
                                  Append(heap, value.def))

\* class S(pw.Schema): body.  The outcome, with the class and the heap it
\* lives in, is what the declaration hands back; the claims read it there
SchemaDeclare ==
    /\ sres = NoResult
    /\ \E body \in BodyInputs :
           LET f == BodyFields(body, <<>>, cdefs)
               r == schema_builder_(BodyAnnotations(body), f.fields, f.heap)
           IN  sres' = SResult("declare", body, r)
    /\ UNCHANGED <<schemas, cdefs, notSchema>>

DeclareNext ==
    \/ SchemaDeclare
    \/ SchemaReturn

----------------------------------------------------------------------------
(* Column definitions given to several schemas                             *)

\* the column definitions the program creates before it declares a schema:
\* two without dtype and one with
SharedDefinitions ==
    <<column_definition(FALSE, no_default_value_marker, NoDType, NoName),
      column_definition(TRUE, no_default_value_marker, NoDType, NoName),
      column_definition(FALSE, "0", INT, NoName)>>

\* class bodies whose members read  x: T = d  or  x = d, with d one of the
\* program's column definitions
SharingBodies ==
    OrderedDicts(ColNames,
                 {NoAnnotation, INT, FLOAT, ANY} \X (1..Len(SharedDefinitions)))

SharingAnnotations(body) ==
    LET annotated == SelectSeq(body, LAMBDA p : p[2][1] # NoAnnotation)
    IN  [i \in 1..Len(annotated) |-> <<annotated[i][1], annotated[i][2][1]>>]

SharingFields(body) ==
    [i \in 1..Len(body) |-> <<body[i][1], CdRef(body[i][2][2])>>]

\* class S(pw.Schema): body, the members' values being objects that exist.
\* What _create_column_definitions assigns to them stays assigned, whether
\* the declaration succeeds or raises.
SchemaShare ==
    /\ sres = NoResult
    /\ \E body \in SharingBodies :
           LET r == schema_builder_(SharingAnnotations(body),
                                    SharingFields(body), cdefs)
           IN  /\ sres' = SResult("share", body, r)
               /\ cdefs' = r.heap
    /\ UNCHANGED <<schemas, notSchema>>

ShareNext ==
    \/ SchemaShare
    \/ SchemaReturn

\* C25: whatever schemas have been declared with them, the column
\* definitions of the program are as they were created, and a declaration
\* has the outcome, and the schema the column dtypes, that it has with the
\* definitions as they were created.
C25_DefinitionsUnchanged ==
    /\ cdefs = SharedDefinitions
    /\ sres.op = "share" =>
          LET fresh == schema_builder_(SharingAnnotations(sres.args),
                                       SharingFields(sres.args),
                                       SharedDefinitions)
          IN  /\ sres.status = fresh.status
              /\ sres.status = "ok" =>
                    as_dict(sres.schema, sres.heap)
                        = as_dict(fresh.schema, fresh.heap)

----------------------------------------------------------------------------
(* Declared schemas: the claims                                            *)

Declared_ == sres.op = "declare" /\ sres.status = "ok"

\* the members of the body last declared that make a column
HasDefinition(m) == m[2].value.kind = "cd"

\* the name of the column a member makes
ColumnNameOf(m) ==
    IF HasDefinition(m) /\ m[2].value.def.name # NoName
    THEN m[2].value.def.name
    ELSE m[1]

\* no two members of the body make a column of the same name
DistinctColumnNames(body) ==
    \A i, j \in 1..Len(body) :
        i # j => ColumnNameOf(body[i]) # ColumnNameOf(body[j])

DeclaresPrimaryKey(m) == HasDefinition(m) /\ m[2].value.def.primary_key

SuppliesDefault(m) ==
    HasDefinition(m) /\ m[2].value.def.default_value \in DefaultInputs

\* C12: primary_key_columns() is None exactly when no column declares
\* primary_key=True, and otherwise is the list of the columns that do, in
\* column order; it is never the empty list.
C12_PrimaryKeyColumns ==
    Declared_ =>
        LET pk == primary_key_columns(sres.schema, sres.heap)
            cols == sres.schema.columns
            key == SelectSeq(cols, LAMBDA p : sres.heap[p[2]].primary_key)
        IN  /\ pk.is_none <=> \A i \in 1..Len(cols) :
                                  ~sres.heap[cols[i][2]].primary_key
            /\ ~pk.is_none => pk.list = Keys(key) /\ pk.list # <<>>
            /\ DistinctColumnNames(sres.args) =>
                   \A i \in 1..Len(sres.args) :
                       DeclaresPrimaryKey(sres.args[i]) <=>
                           /\ ~pk.is_none
                           /\ \E j \in 1..Len(pk.list) :
                                  pk.list[j] = ColumnNameOf(sres.args[i])

C12_Witness ==
    /\ Declared_
    /\ Len(sres.schema.columns) = 2
    /\ primary_key_columns(sres.schema, sres.heap).list
           = <<sres.schema.columns[2][1]>>
    /\ ~DeclaresPrimaryKey(sres.args[1])

\* C13: has_default_value() is true exactly for the columns whose definition
\* was given a default_value, whatever the value (None, 0, False and '' too),
\* and default_values() maps exactly those columns to the value given.
C13_DefaultValues ==
    (Declared_ /\ DistinctColumnNames(sres.args)) =>
        LET dv == default_values(sres.schema, sres.heap)
        IN  /\ \A i \in 1..Len(sres.args) :
                   LET m == sres.args[i]
                       column == sres.heap[Get(sres.schema.columns, ColumnNameOf(m))]
                   IN  /\ has_default_value(column) <=> SuppliesDefault(m)
                       /\ Has(dv, ColumnNameOf(m)) <=> SuppliesDefault(m)
                       /\ SuppliesDefault(m) =>
                              Get(dv, ColumnNameOf(m)) = m[2].value.def.default_value
            /\ KeySet(dv) \subseteq {ColumnNameOf(sres.args[i]) : i \in 1..Len(sres.args)}

C13_Witness ==
    /\ Declared_
    /\ DistinctColumnNames(sres.args)
    /\ Len(sres.schema.columns) = 2
    /\ LET dv == default_values(sres.schema, sres.heap)
       IN  /\ Len(dv) = 1
           /\ dv[1][2] = "None"
           /\ dv[1][1] = sres.schema.columns[2][1]

\* a member whose annotation and definition disagree on the dtype
DtypeMismatch(m) ==
    /\ HasDefinition(m)
    /\ m[2].annotation \notin {NoAnnotation, ANY}
    /\ m[2].value.def.dtype \notin {NoDType, m[2].annotation}

NotADefinition(m) == m[2].value.kind = "other"

\* C14: a declaration with a dtype mismatch raises TypeError, one with a
\* member that is not a column definition raises ValueError, and neither
\* produces a schema; in a schema that is built a definition without dtype
\* has the dtype of the annotation, and under an annotation Any a definition
\* keeps its own dtype.
C14_DeclarationErrors ==
    sres.op = "declare" =>
        LET body == sres.args
            mismatch == \E i \in 1..Len(body) : DtypeMismatch(body[i])
            invalid == \E i \in 1..Len(body) : NotADefinition(body[i])
        IN  /\ (mismatch /\ ~invalid) => sres.status = "TypeError"
            /\ (invalid /\ ~mismatch) => sres.status = "ValueError"
            /\ (invalid /\ mismatch) => sres.status \in {"TypeError", "ValueError"}
            /\ sres.status # "ok" => sres.schema = NoSchema
            /\ (sres.status = "ok" /\ DistinctColumnNames(body)) =>
                   \A i \in 1..Len(body) :
                       LET m == body[i]
                           dtype == Get(as_dict(sres.schema, sres.heap),
                                        ColumnNameOf(m))
                       IN  /\ (HasDefinition(m) /\ m[2].value.def.dtype = NoDType
                                  /\ m[2].annotation # NoAnnotation)
                              => dtype = m[2].annotation
                           /\ (HasDefinition(m) /\ m[2].value.def.dtype # NoDType
                                  /\ m[2].annotation = ANY)
                              => dtype = m[2].value.def.dtype

C14_Witness ==
    /\ sres.op = "declare"
    /\ sres.status = "TypeError"
    /\ Len(sres.args) = 2
    /\ ~DtypeMismatch(sres.args[1])
    /\ DtypeMismatch(sres.args[2])

\* the elements of s in order, each at its first occurrence only
FirstOccurrences(s) ==
    LET first == {i \in 1..Len(s) : \A j \in 1..(i - 1) : s[j] # s[i]}
    IN  [k \in 1..Cardinality(first) |->
            s[CHOOSE i \in first : Cardinality({j \in first : j <= i}) = k]]

\* C15 as stated: the columns come in the order of the class body.
C15_BodyOrder ==
    (Declared_ /\ DistinctColumnNames(sres.args)) =>
        column_names(sres.schema, sres.heap)
            = [i \in 1..Len(sres.args) |-> ColumnNameOf(sres.args[i])]

\* C15: the columns of a declared schema are its annotated members, in the
\* order of the class body, followed by its un-annotated column definitions,
\* in the order of the class body (a name made twice staying where it first
\* came); as_dict(), column_names() and types() agree on that order.
C15_AnnotatedFirst ==
    Declared_ =>
        LET body == sres.args
            annotated == SelectSeq(body, LAMBDA m : m[2].annotation # NoAnnotation)
            others == SelectSeq(body, LAMBDA m : m[2].annotation = NoAnnotation)
            order == annotated \o others
            names == column_names(sres.schema, sres.heap)
            d == as_dict(sres.schema, sres.heap)
        IN  /\ names = FirstOccurrences([i \in 1..Len(order) |->
                                             ColumnNameOf(order[i])])
            /\ names = Keys(d)
            /\ types(sres.schema, sres.heap) = [i \in 1..Len(d) |-> Get(d, names[i])]

C15_Witness ==
    /\ Declared_
    /\ Len(sres.args) = 2
    /\ sres.args[1][2].annotation = NoAnnotation
    /\ sres.args[2][2].annotation # NoAnnotation
    /\ Len(sres.schema.columns) = 2

\* C30: a declared schema has as many columns as its body has members, the
\* members having pairwise distinct names, whether or not a column
\* definition sets name=; and its column names are pairwise distinct.
C30_OneColumnPerMember ==
    Declared_ =>
        /\ Len(sres.schema.columns) = Cardinality(KeySet(sres.args))
        /\ \A i, j \in 1..Len(sres.schema.columns) :
               i # j => sres.schema.columns[i][1] # sres.schema.columns[j][1]

----------------------------------------------------------------------------
(* Sums of declared schemas                                                *)

MaxAddends == 3

CdMember(definition) == Member(NoAnnotation, [kind |-> "cd", def |-> definition])

Annotated(dtype) == Member(dtype, [kind |-> "none"])

\* the declarations the addends are made by: schema_from_types (annotations
\* only), schema_builder (column definitions only) and class bodies
AddendInputs ==
    {<<<<"a", Annotated(INT)>>>>,
     <<<<"c", Annotated(INT)>>, <<"d", Annotated(FLOAT)>>>>,
     <<<<"d", CdMember(column_definition(TRUE, no_default_value_marker, FLOAT, NoName))>>,
       <<"c", CdMember(column_definition(FALSE, "0", INT, NoName))>>>>,
     <<<<"a", CdMember(column_definition(FALSE, no_default_value_marker, INT, "b"))>>>>,
     <<<<"b", Member(INT, [kind |-> "cd",
                           def |-> column_definition(FALSE, no_default_value_marker,
                                                     NoDType, NoName)])>>>>,
     <<<<"e", Annotated(INT)>>,
       <<"f", CdMember(column_definition(FALSE, no_default_value_marker, INT, NoName))>>>>}

\* the schemas declared one after the other, on one heap
RECURSIVE BuildPool(_, _, _)
BuildPool(bodies, pool, heap) ==
    IF bodies = <<>>
    THEN [pool |-> pool, heap |-> heap]
    ELSE LET f == BodyFields(Head(bodies), <<>>, heap)
             r == schema_builder_(BodyAnnotations(Head(bodies)), f.fields, f.heap)
         IN  BuildPool(Tail(bodies), Append(pool, r.schema), r.heap)

AddendPools == UNION {[1..n -> AddendInputs] : n \in 2..MaxAddends}

SumNext ==
    \/ SchemaAdd
    \/ SchemaReturn

----------------------------------------------------------------------------
(* Sums: the claims                                                        *)

Addends == [i \in 1..Len(sres.args) |-> schemas[sres.args[i]]]

DisjointAddends ==
    \A i, j \in 1..Len(sres.args) :
        i # j => ColumnNames(Addends[i]) \cap ColumnNames(Addends[j]) = {}

\* C11: the sum of schemas with pairwise disjoint column names has as many
\* columns as its inputs together, and its as_dict() gives every column of
\* every input the dtype it has there, and has no other name.
C11_DisjointSum ==
    (sres.op = "schema_add" /\ DisjointAddends) =>
        /\ sres.status = "ok"
        /\ Len(sres.schema.columns)
               = SeqSum([i \in 1..Len(Addends) |-> Len(Addends[i].columns)])
        /\ \A i \in 1..Len(Addends) : \A n \in ColumnNames(Addends[i]) :
               /\ Has(as_dict(sres.schema, sres.heap), n)
               /\ Get(as_dict(sres.schema, sres.heap), n) = ColumnDType(Addends[i], n)
        /\ KeySet(as_dict(sres.schema, sres.heap))
               = UNION {ColumnNames(Addends[i]) : i \in 1..Len(Addends)}

\* C16 as stated: the columns of each later input, in its own order, come
\* before those of every earlier input.
C16_LaterInputsFirst ==
    (sres.op = "schema_add" /\ sres.status = "ok" /\ DisjointAddends) =>
        column_names(sres.schema, sres.heap)
            = Concat([i \in 1..Len(Addends) |->
                         Keys(Reverse(Addends)[i].columns)])

\* the column a member name of the sum makes: the name= of its definition
\* if it has one
SumColumnName(k) ==
    IF \E i \in 1..Len(Addends) :
           /\ Has(Addends[i].fields, k)
           /\ cdefs[Get(Addends[i].fields, k).id].name # NoName
    THEN LET i == CHOOSE i \in 1..Len(Addends) :
                      /\ Has(Addends[i].fields, k)
                      /\ cdefs[Get(Addends[i].fields, k).id].name # NoName
         IN  cdefs[Get(Addends[i].fields, k).id].name
    ELSE k

\* C16: in a sum the annotated columns come first, those of each later
\* input, in its own order, before those of every earlier input; the columns
\* declared by a column definition alone follow, ordered among themselves in
\* the same way.
C16_AnnotatedLaterInputsFirst ==
    (sres.op = "schema_add" /\ sres.status = "ok") =>
        LET later == Reverse(Addends)
            members ==
                Concat([i \in 1..Len(later) |-> Keys(later[i].annotations)])
                    \o Concat([i \in 1..Len(later) |-> Keys(later[i].fields)])
        IN  column_names(sres.schema, sres.heap)
                = FirstOccurrences([j \in 1..Len(members) |->
                                       SumColumnName(members[j])])

C16_Witness ==
    /\ sres.op = "schema_add"
    /\ sres.status = "ok"
    /\ Len(sres.args) = 3
    /\ DisjointAddends
    /\ Len(sres.schema.columns) >= 4
    /\ Addends[1].annotations = <<>>
    /\ Addends[3].annotations # <<>>
    /\ Len(Addends[2].annotations) = 2

----------------------------------------------------------------------------
(* schema.py: the cached dict form of a schema and its accessors           *)

\* as_dict has not been called: lru_cache holds no entry for the schema
NoCache == [cached |-> FALSE, dict |-> <<>>, returned |-> FALSE]

NoView == [op |-> "none", value |-> <<>>]

\* the schema the accessors are called on
ViewedSchema == schemas[1]

\* self.as_dict() under lru_cache: the dict made at the first call is the
\* object every call returns
CachedAsDict ==
    IF views.cache.cached THEN views.cache.dict
    ELSE as_dict(ViewedSchema, cdefs)

\* an accessor calls self.as_dict() and hands back `value`
View(op, value, returned) ==
    /\ views' = [cache |-> [cached |-> TRUE, dict |-> CachedAsDict,
                            returned |-> views.cache.returned \/ returned],
                 res |-> [op |-> op, value |-> value]]
    /\ UNCHANGED notViews

\* S.as_dict(): the caller receives the cached dict itself
AsDict ==
    /\ views.res = NoView
    /\ View("as_dict", CachedAsDict, TRUE)

\* S.column_names(): list(self.as_dict().keys())
SchemaColumnNames ==
    /\ views.res = NoView
    /\ View("column_names", Keys(CachedAsDict), FALSE)

\* S.types(): list(self.as_dict().values())
SchemaTypes ==
    /\ views.res = NoView
    /\ View("types", [i \in 1..Len(CachedAsDict) |-> CachedAsDict[i][2]], FALSE)

\* S.keys(): self.as_dict().keys()
SchemaKeys ==
    /\ views.res = NoView
    /\ View("keys", Keys(CachedAsDict), FALSE)

\* S.values(): self.as_dict().values()
SchemaValues ==
    /\ views.res = NoView
    /\ View("values", [i \in 1..Len(CachedAsDict) |-> CachedAsDict[i][2]], FALSE)

\* the names looked up: the names of the model's columns and one more
LookupNames == {"a", "b", "c", "d", "e", "f", "zz"}

\* S[name]: self.as_dict()[name]
SchemaGetitem ==
    /\ views.res = NoView
    /\ \E name \in LookupNames :
           View("getitem",
                IF Has(CachedAsDict, name)
                THEN <<name, Get(CachedAsDict, name)>> ELSE <<name, "KeyError">>,
                FALSE)

\* the caller of as_dict() stores an item in the dict it was given
CallerSetsItem ==
    /\ views.res = NoView
    /\ views.cache.returned
    /\ ~Has(views.cache.dict, "zz")
    /\ views' = [views EXCEPT !.cache.dict = Put(@, "zz", INT)]
    /\ UNCHANGED notViews

\* the caller of as_dict() pops an item of the dict it was given
CallerPopsItem ==
    /\ views.res = NoView
    /\ views.cache.returned
    /\ \E name \in KeySet(views.cache.dict) :
           views' = [views EXCEPT !.cache.dict = Pop(@, name)]
    /\ UNCHANGED notViews

\* the caller is done with the result of the last accessor
ViewReturn ==
    /\ views.res # NoView
    /\ views' = [views EXCEPT !.res = NoView]
    /\ UNCHANGED notViews

ViewsInit == views = [cache |-> NoCache, res |-> NoView]

ViewsNext ==
    \/ AsDict
    \/ SchemaColumnNames
    \/ SchemaTypes
    \/ SchemaKeys
    \/ SchemaValues
    \/ SchemaGetitem
    \/ CallerSetsItem
    \/ CallerPopsItem
    \/ ViewReturn

\* the name-to-dtype mapping of the column definitions of the schema
ColumnDtypes ==
    [i \in 1..Len(ViewedSchema.columns) |->
        <<ViewedSchema.columns[i][1], cdefs[ViewedSchema.columns[i][2]].dtype>>]

\* C26: whatever accessors have been called and whatever the callers did
\* with the results, the dict as_dict() returns is the name-to-dtype
\* mapping of the schema's column definitions, and what the last accessor
\* returned agrees with that mapping.
C26_DictFormPure ==
    /\ views.cache.cached => views.cache.dict = ColumnDtypes
    /\ views.res.op = "as_dict" => views.res.value = ColumnDtypes
    /\ views.res.op \in {"column_names", "keys"} =>
          views.res.value = Keys(ColumnDtypes)
    /\ views.res.op \in {"types", "values"} =>
          views.res.value = [i \in 1..Len(ColumnDtypes) |-> ColumnDtypes[i][2]]
    /\ views.res.op = "getitem" =>
          views.res.value
              = (IF Has(ColumnDtypes, views.res.value[1])
                 THEN <<views.res.value[1], Get(ColumnDtypes, views.res.value[1])>>
                 ELSE <<views.res.value[1], "KeyError">>)

----------------------------------------------------------------------------
(* expression_printer.py: rendering an expression for a message            *)

\* A text is the sequence of its pieces, as a file name is.

\* sep.join(texts)
Join(texts, sep) ==
    Concat([i \in 1..Len(texts) |->
               IF i = 1 THEN texts[i] ELSE <<sep>> \o texts[i]])

\* Python values held by constant expressions, and their repr()
PyInt(n) == [type |-> "int", int |-> n]

PyBool(b) == [type |-> "bool", int |-> IF b THEN 1 ELSE 0]

repr(val) ==
    IF val.type = "bool"
    THEN (IF val.int = 1 THEN "True" ELSE "False")
    ELSE ToString(val.int)

\* The expression nodes the formatter reads.  A ColumnReference is the
\* record of table_slice.py above; every other node carries its kind.  The
\* operator of a unary or binary node is held as its _symbol.
ColumnConstExpression(val) == [kind |-> "const", val |-> val]

ColumnUnaryOpExpression(operator, expr) ==
    [kind |-> "unary_op", operator |-> operator, expr |-> expr]

ColumnBinaryOpExpression(left, right, operator) ==
    [kind |-> "binary_op", operator |-> operator, left |-> left,
     right |-> right]

PointerExpression(table, args, optional) ==
    [kind |-> "pointer", table |-> table, args |-> args,
     optional |-> optional]

ColumnIxExpression(keys_expression, column_expression, optional) ==
    [kind |-> "ix", keys_expression |-> keys_expression,
     column_expression |-> column_expression, optional |-> optional]

ColumnCallExpression(col_expr, args) ==
    [kind |-> "call", col_expr |-> col_expr, args |-> args]

\* the class of a node, by which ExpressionVisitor.eval_expression picks
\* the eval_ method
Kind(expression) ==
    IF "kind" \in DOMAIN expression THEN expression.kind ELSE "column_val"

\* the node with the Trace its constructor captured (expression._trace)
Traced(expression, trace) == [trace |-> trace] @@ expression

\* a formatter whose count starts at 0
FormatterCountingFromZero == [table_counter |-> 0, table_numbers |-> <<>>]

\* ExpressionFormatter(): table_counter is the next value of the count,
\* table_numbers the defaultdict in insertion order
ExpressionFormatter == [table_counter |-> 1, table_numbers |-> <<>>]

\* a lookup that takes the next value of the count whether or not the table
\* has a number
number_afresh(self, tab) ==
    [value |-> self.table_counter,
     self |-> [table_counter |-> self.table_counter + 1,
               table_numbers |->
                   Put(self.table_numbers, tab, self.table_counter)]]

\* self.table_numbers[tab]: a table without a number gets the next value of
\* the count
table_numbers_getitem(self, tab) ==
    IF Has(self.table_numbers, tab)
    THEN [value |-> Get(self.table_numbers, tab), self |-> self]
    ELSE [value |-> self.table_counter,
          self |-> [table_counter |-> self.table_counter + 1,
                    table_numbers |->
                        Put(self.table_numbers, tab, self.table_counter)]]

\* f"<table{cnt}>"
Label(cnt) == "<table" \o ToString(cnt) \o ">"

RECURSIVE eval_expression(_, _)
RECURSIVE EvalItems(_, _)

\* the generators of _eval_args_kwargs, consumed by join one item after the
\* other; an item is a pair of a key ("" for a positional one) and a node
EvalItems(self, items) ==
    IF items = <<>> THEN [texts |-> <<>>, self |-> self]
    ELSE LET h == eval_expression(self, Head(items)[2])
             t == EvalItems(h.self, Tail(items))
             text == IF Head(items)[1] = "" THEN h.text
                     ELSE <<Head(items)[1], "=">> \o h.text
         IN  [texts |-> <<text>> \o t.texts, self |-> t.self]

\* ExpressionFormatter._eval_args_kwargs
eval_args_kwargs(self, args, kwargs) ==
    LET r == EvalItems(self, [i \in 1..Len(args) |-> <<"", args[i]>>] \o kwargs)
    IN  [text |-> Join(r.texts, ", "), self |-> r.self]

\* ExpressionFormatter.eval_expression: the text of the node and the
\* formatter as the rendering leaves it
eval_expression(self, expression) ==
    CASE Kind(expression) = "column_val" ->
            LET n == table_numbers_getitem(self, expression.table)
            IN  [text |-> <<Label(n.value), ".", expression.name>>,
                 self |-> n.self]
      [] Kind(expression) = "const" ->
            [text |-> <<repr(expression.val)>>, self |-> self]
      [] Kind(expression) = "unary_op" ->
            LET uexpr == eval_expression(self, expression.expr)
            IN  [text |-> <<"(", expression.operator>> \o uexpr.text \o <<")">>,
                 self |-> uexpr.self]
      [] Kind(expression) = "binary_op" ->
            LET lexpr == eval_expression(self, expression.left)
                rexpr == eval_expression(lexpr.self, expression.right)
            IN  [text |-> <<"(">> \o lexpr.text
                          \o <<" ", expression.operator, " ">>
                          \o rexpr.text \o <<")">>,
                 self |-> rexpr.self]
      [] Kind(expression) = "pointer" ->
            LET kwargs == IF expression.optional
                          THEN << <<"optional",
                                    ColumnConstExpression(PyBool(TRUE))>> >>
                          ELSE <<>>
                args == eval_args_kwargs(self, expression.args, kwargs)
                n == table_numbers_getitem(args.self, expression.table)
            IN  [text |-> <<Label(n.value), ".pointer_from(">>
                          \o args.text \o <<")">>,
                 self |-> n.self]
      [] Kind(expression) = "ix" ->
            LET keys_ == eval_expression(self, expression.keys_expression)
                args_joined ==
                    Join(<<keys_.text>>
                            \o (IF expression.optional
                                THEN << <<"optional=True">> >> ELSE <<>>),
                         ", ")
                n == table_numbers_getitem(
                         keys_.self, expression.column_expression.table)
            IN  [text |-> <<Label(n.value), ".ix(">> \o args_joined
                          \o <<").", expression.column_expression.name>>,
                 self |-> n.self]
      [] Kind(expression) = "call" ->
            LET args == eval_args_kwargs(self, expression.args, <<>>)
                col == eval_expression(args.self, expression.col_expr)
            IN  [text |-> col.text \o <<"(">> \o args.text \o <<")">>,
                 self |-> col.self]

\* The tables of the program and the Trace of the operator that created
\* each (tab._source.operator.trace): two were created by calls that went
\* through a marker, the third by a call that reached none, so that
\* Trace.from_traceback found no user frame.
PrinterTables == {"T1", "T2", "T3"}

OperatorTrace(tab) ==
    CASE tab = "T1" -> Trace(MainFrame)
      [] tab = "T2" -> Trace(TestFrame)
      [] tab = "T3" -> Trace(NoFrame)

\* ExpressionFormatter.table_infos
table_infos(self) ==
    [i \in 1..Len(self.table_numbers) |->
        <<Label(self.table_numbers[i][2]),
          OperatorTrace(self.table_numbers[i][1]).user_frame>>]

\* ExpressionFormatter.print_table_infos: frame.filename of None raises
\* AttributeError
print_table_infos(self) ==
    LET infos == table_infos(self)
    IN  IF \E i \in 1..Len(infos) : infos[i][2] = NoFrame
        THEN [status |-> "AttributeError", text |-> <<>>]
        ELSE [status |-> "ok",
              text |-> Join([i \in 1..Len(infos) |->
                               <<infos[i][1], " created in ">>
                                   \o infos[i][2].filename
                                   \o <<":", ToString(infos[i][2].line_number)>>],
                            "\n")]

\* get_expression_info
get_expression_info(expression) ==
    LET printer_ == eval_expression(ExpressionFormatter, expression)
        expression_str == printer_.text \o <<",\n">>
        frame == expression.trace.user_frame
        expression_info ==
            IF frame # NoFrame
            THEN <<"called in ">> \o frame.filename
                     \o <<":", ToString(frame.line_number), "\n">>
            ELSE <<>>
        infos == print_table_infos(printer_.self)
        tabnames == IF infos.text # <<>>
                    THEN <<"with tables:\n">> \o infos.text \o <<"\n">>
                    ELSE <<>>
    IN  IF infos.status # "ok"
        THEN [status |-> infos.status, text |-> <<>>]
        ELSE [status |-> "ok",
              text |-> expression_str \o expression_info \o tabnames]

\* Bound on the calls made on the formatter and of get_expression_info
MaxCalls == 3

\* The expressions of the program: a column, sums over one and over two
\* tables, a row lookup, a pointer, a call of a column, a negation of a
\* column of the table without user frame, a constant; some were built
\* under a marker and name a user frame, the others name none.
Expressions ==
    { Traced(ColumnReference("T1", "a"), Trace(MainFrame)),
      Traced(ColumnBinaryOpExpression(
                 ColumnReference("T2", "b"), ColumnReference("T1", "a"), "+"),
             Trace(NoFrame)),
      Traced(ColumnBinaryOpExpression(
                 ColumnReference("T1", "a"),
                 ColumnBinaryOpExpression(
                     ColumnReference("T1", "b"),
                     ColumnConstExpression(PyInt(2)), "*"),
                 "+"),
             Trace(TestFrame)),
      Traced(ColumnIxExpression(
                 ColumnReference("T2", "b"), ColumnReference("T1", "a"), TRUE),
             Trace(MainFrame)),
      Traced(PointerExpression(
                 "T1",
                 <<ColumnReference("T2", "b"), ColumnReference("T3", "c")>>,
                 TRUE),
             Trace(NoFrame)),
      Traced(ColumnCallExpression(
                 ColumnReference("T1", "a"), <<ColumnReference("T2", "b")>>),
             Trace(MainFrame)),
      Traced(ColumnUnaryOpExpression("-", ColumnReference("T3", "c")),
             Trace(MainFrame)),
      Traced(ColumnConstExpression(PyInt(1)), Trace(NoFrame)) }

CallsMade == Len(printer.renders) + Len(printer.infos)

\* the program makes a formatter of its own
NewFormatter ==
    /\ printer.renders # <<>>
    /\ printer' = [printer EXCEPT !.formatter = ExpressionFormatter,
                                  !.renders = <<>>]
    /\ UNCHANGED notPrinter

\* formatter.eval_expression(expression) on the program's formatter
EvalExpression ==
    /\ CallsMade < MaxCalls
    /\ \E expression \in Expressions :
           LET r == eval_expression(printer.formatter, expression)
           IN  printer' = [printer EXCEPT
                   !.formatter = r.self,
                   !.renders = Append(@, <<expression, r.text>>)]
    /\ UNCHANGED notPrinter

\* get_expression_info(expression)
GetExpressionInfo ==
    /\ CallsMade < MaxCalls
    /\ \E expression \in Expressions :
           printer' = [printer EXCEPT
               !.infos = Append(@, <<expression,
                                     get_expression_info(expression)>>)]
    /\ UNCHANGED notPrinter

PrinterInit ==
    printer = [formatter |-> ExpressionFormatter, renders |-> <<>>,
               infos |-> <<>>]

PrinterNext ==
    \/ NewFormatter
    \/ EvalExpression
    \/ GetExpressionInfo

----------------------------------------------------------------------------
(* The expression formatter: the claims                                    *)

\* the labels of a text, in the order they stand in it
IsLabel(piece) == \E cnt \in 0..(4 * (MaxCalls + 1)) : piece = Label(cnt)

Labels(text) == SelectSeq(text, IsLabel)

PieceSet(text) == {text[i] : i \in 1..Len(text)}

\* The tables a node refers to, one entry for each reference, in one of
\* three orders: "text", as the references stand in the rendered text (the
\* table of a lookup or pointer before its arguments); "children first",
\* the children of a node from left to right and then the node's own table;
\* "arguments first", as "children first" but the arguments of a call before
\* the column that is called.
RECURSIVE TablesOf(_, _)
TablesOf(expression, order) ==
    LET Each(args) ==
            Concat([i \in 1..Len(args) |-> TablesOf(args[i], order)])
    IN  CASE Kind(expression) = "column_val" -> <<expression.table>>
          [] Kind(expression) = "const" -> <<>>
          [] Kind(expression) = "unary_op" -> TablesOf(expression.expr, order)
          [] Kind(expression) = "binary_op" ->
                TablesOf(expression.left, order)
                    \o TablesOf(expression.right, order)
          [] Kind(expression) = "pointer" ->
                IF order = "text"
                THEN <<expression.table>> \o Each(expression.args)
                ELSE Each(expression.args) \o <<expression.table>>
          [] Kind(expression) = "ix" ->
                IF order = "text"
                THEN <<expression.column_expression.table>>
                         \o TablesOf(expression.keys_expression, order)
                ELSE TablesOf(expression.keys_expression, order)
                         \o <<expression.column_expression.table>>
          [] Kind(expression) = "call" ->
                IF order = "arguments first"
                THEN Each(expression.args)
                         \o TablesOf(expression.col_expr, order)
                ELSE TablesOf(expression.col_expr, order)
                         \o Each(expression.args)

\* the labels the program's formatter has rendered, and the tables of the
\* expressions it rendered
RenderedLabels ==
    Concat([i \in 1..Len(printer.renders) |-> Labels(printer.renders[i][2])])

RenderedTables(order) ==
    Concat([i \in 1..Len(printer.renders) |->
               TablesOf(printer.renders[i][1], order)])

\* the labels of a text are <table1> .. <tablen>, n the number of tables
LabelsUpTo(labels, n) ==
    {labels[i] : i \in 1..Len(labels)} = {Label(k) : k \in 1..n}

SameTreeTwice ==
    \E i, j \in 1..Len(printer.renders) :
        /\ i < j
        /\ printer.renders[i][1] = printer.renders[j][1]
        /\ Labels(printer.renders[i][2]) # <<>>

\* C22: two renderings of one expression by one formatter are the same
\* text, labels included; and every get_expression_info call numbers the
\* tables of its expression from <table1> on and yields, for the same
\* expression, the same description, whatever was rendered or described
\* before it.
C22_Deterministic ==
    /\ \A i, j \in 1..Len(printer.renders) :
           printer.renders[i][1] = printer.renders[j][1]
               => printer.renders[i][2] = printer.renders[j][2]
    /\ \A i \in 1..Len(printer.infos) :
           printer.infos[i][2].status = "ok" =>
               LabelsUpTo(Labels(printer.infos[i][2].text),
                          Cardinality(PieceSet(
                              TablesOf(printer.infos[i][1], "text"))))
    /\ \A i, j \in 1..Len(printer.infos) :
           printer.infos[i][1] = printer.infos[j][1]
               => printer.infos[i][2] = printer.infos[j][2]

\* one expression rendered twice by a formatter that numbered a table, and
\* a description made of an expression the program's formatter would
\* label otherwise
C22_Witness ==
    /\ SameTreeTwice
    /\ \E i \in 1..Len(printer.infos) :
           LET text == eval_expression(
                           printer.formatter, printer.infos[i][1]).text
           IN  /\ printer.infos[i][2].status = "ok"
               /\ Labels(printer.infos[i][2].text) # <<>>
               /\ SubSeq(printer.infos[i][2].text, 1, Len(text)) # text

\* the labelling of the program's formatter when tables are numbered as
\* they are first met in the given order
Labelling(order) ==
    LET labels == RenderedLabels
        tables == RenderedTables("text")
        first == FirstOccurrences(RenderedTables(order))
    IN  /\ Len(labels) = Len(tables)
        /\ \A i, j \in 1..Len(labels) :
               (labels[i] = labels[j]) <=> (tables[i] = tables[j])
        /\ LabelsUpTo(labels, Len(first))
        /\ \A i \in 1..Len(labels) : \A k \in 1..Len(first) :
               first[k] = tables[i] => labels[i] = Label(k)

\* C23 as stated: in one formatter distinct tables have distinct labels,
\* one table has one label, the labels are <table1> .. <tablen> for n
\* tables, given in the order the tables are first met when the children
\* of every node are visited from left to right before the node's own
\* table.
C23_ChildrenFirstLeftToRight == Labelling("children first")

\* C23, amended: the same, but the arguments of a call are visited before
\* the column that is called.
C23_ArgumentsBeforeCalledColumn == Labelling("arguments first")

\* the formatter rendered a call and a row lookup and numbered two tables
\* or more
C23_Witness ==
    /\ \E i \in 1..Len(printer.renders) :
           Kind(printer.renders[i][1]) = "call"
    /\ \E i \in 1..Len(printer.renders) :
           Kind(printer.renders[i][1]) = "ix"
    /\ Len(printer.formatter.table_numbers) >= 2

\* C28: every get_expression_info call yields a description; it has the
\* "called in" line exactly when the expression names a user frame, and
\* when the expression refers to tables it has the "with tables" section
\* with one line for each table.
C28_DescriptionForEveryExpression ==
    \A i \in 1..Len(printer.infos) :
        LET expression == printer.infos[i][1]
            info == printer.infos[i][2]
            tables == PieceSet(TablesOf(expression, "text"))
        IN  /\ info.status = "ok"
            /\ (expression.trace.user_frame = NoFrame)
                   <=> ("called in " \notin PieceSet(info.text))
            /\ tables # {} =>
                   /\ "with tables:\n" \in PieceSet(info.text)
                   /\ Len(SelectSeq(info.text,
                                    LAMBDA p : p = " created in "))
                          = Cardinality(tables)

----------------------------------------------------------------------------
(* expressions/string.py: string methods evaluated on a row                *)

\* A Python str is the sequence of its characters.

\* Bound on the length of the strings of a row
MaxLen == 3

Alphabet == {"a", "b"}

StrsUpTo(n) == UNION {[1..k -> Alphabet] : k \in 0..n}

\* Optional[int]: None and an int
NoneArg == [none |-> TRUE, int |-> 0]

IntArg(n) == [none |-> FALSE, int |-> n]

\* the positions str.find and str.rfind try for s[start:end]: None stands
\* for 0 and len(s), a negative index counts from the end, end is cut to
\* len(s)
AdjustedStart(s, start) ==
    IF start.none THEN 0
    ELSE IF start.int < 0
         THEN (IF start.int + Len(s) < 0 THEN 0 ELSE start.int + Len(s))
         ELSE start.int

AdjustedEnd(s, end) ==
    IF end.none \/ end.int > Len(s) THEN Len(s)
    ELSE IF end.int < 0
         THEN (IF end.int + Len(s) < 0 THEN 0 ELSE end.int + Len(s))
         ELSE end.int

\* s[i:i + len(sub)] == sub, i counted from 0
MatchesAt(s, sub, i) ==
    /\ i + Len(sub) <= Len(s)
    /\ SubSeq(s, i + 1, i + Len(sub)) = sub

\* Python's str.find: the scan from the left
RECURSIVE ScanRight(_, _, _, _)
ScanRight(s, sub, i, last) ==
    IF i > last THEN -1
    ELSE IF MatchesAt(s, sub, i) THEN i
    ELSE ScanRight(s, sub, i + 1, last)

str_find(s, sub, start, end) ==
    ScanRight(s, sub, AdjustedStart(s, start),
              AdjustedEnd(s, end) - Len(sub))

\* Python's str.rfind: the scan from the right
RECURSIVE ScanLeft(_, _, _, _)
ScanLeft(s, sub, i, first) ==
    IF i < first THEN -1
    ELSE IF MatchesAt(s, sub, i) THEN i
    ELSE ScanLeft(s, sub, i - 1, first)

str_rfind(s, sub, start, end) ==
    ScanLeft(s, sub, AdjustedEnd(s, end) - Len(sub),
             AdjustedStart(s, start))

\* the function objects str.find and str.rfind, as values
MethodDescriptor(name) == [type |-> name, int |-> 0]

\* MethodCallExpression.with_static_type: the function applied to the
\* values of a row, and the arguments after the string itself
MethodCallExpression(fun, args) ==
    [status |-> "ok", fun |-> fun, args |-> args]

\* StringNamespace.find
find(sub, start, end) ==
    IF start.none /\ end.none
    THEN MethodCallExpression("str.find", <<sub>>)
    ELSE IF end.none
    THEN MethodCallExpression("str.find", <<sub, start>>)
    ELSE IF start.none
    THEN [status |-> "ValueError", fun |-> "", args |-> <<>>]
    ELSE MethodCallExpression("lambda s1, s2, s, e: str.find",
                              <<sub, start, end>>)

\* StringNamespace.rfind
rfind(sub, start, end) ==
    IF start.none /\ end.none
    THEN MethodCallExpression("str.rfind", <<sub>>)
    ELSE IF end.none
    THEN MethodCallExpression("str.rfind", <<sub, start>>)
    ELSE IF start.none
    THEN [status |-> "ValueError", fun |-> "", args |-> <<>>]
    ELSE MethodCallExpression("str.rfind", <<sub, start, end>>)

\* api.Expression.apply(fun, x, ...): the value of the expression for the
\* row whose string is x
Apply(expression, x) ==
    LET args == expression.args
        start == IF Len(args) >= 2 THEN args[2] ELSE NoneArg
        end == IF Len(args) >= 3 THEN args[3] ELSE NoneArg
    IN  CASE expression.fun = "str.find" ->
                PyInt(str_find(x, args[1], start, end))
          [] expression.fun = "str.rfind" ->
                PyInt(str_rfind(x, args[1], start, end))
          [] expression.fun = "lambda s1, s2, s, e: str.find" ->
                MethodDescriptor("str.find")

Indexes == {NoneArg} \cup {IntArg(n) : n \in (-(MaxLen + 1))..(MaxLen + 1)}

NoStrres ==
    [op |-> "none", s |-> <<>>, sub |-> <<>>, start |-> NoneArg,
     end |-> NoneArg, status |-> "none", value |-> PyInt(0)]

\* op(expression.str.<op>(sub, start, end)) built and evaluated for a row
Evaluated(op, expression, s, sub, start, end) ==
    [op |-> op, s |-> s, sub |-> sub, start |-> start, end |-> end,
     status |-> expression.status,
     value |-> IF expression.status = "ok" THEN Apply(expression, s)
               ELSE PyInt(0)]

\* table.select(col.str.find(sub, start, end)) for one row
Find ==
    /\ strres = NoStrres
    /\ \E s \in StrsUpTo(MaxLen), sub \in StrsUpTo(2),
          start \in Indexes, end \in Indexes :
           strres' = Evaluated("find", find(sub, start, end),
                               s, sub, start, end)
    /\ UNCHANGED notString

\* table.select(col.str.rfind(sub, start, end)) for one row
Rfind ==
    /\ strres = NoStrres
    /\ \E s \in StrsUpTo(MaxLen), sub \in StrsUpTo(2),
          start \in Indexes, end \in Indexes :
           strres' = Evaluated("rfind", rfind(sub, start, end),
                               s, sub, start, end)
    /\ UNCHANGED notString

\* the program is done with the value
StringReturn ==
    /\ strres # NoStrres
    /\ strres' = NoStrres
    /\ UNCHANGED notString

StringInit == strres = NoStrres

StringNext ==
    \/ Find
    \/ Rfind
    \/ StringReturn

\* the indices at which sub is found within s[start:end]
FoundWithin(s, sub, start, end) ==
    {i \in 0..Len(s) :
        /\ AdjustedStart(s, start) <= i
        /\ i + Len(sub) <= AdjustedEnd(s, end)
        /\ MatchesAt(s, sub, i)}

\* C27: find called with sub only, with sub and start, or with sub, start
\* and end evaluates for a row to the lowest index at which sub is found
\* within s[start:end], and to -1 when it is found nowhere there.
C27_FindLowestIndex ==
    (strres.op = "find" /\ ~(strres.start.none /\ ~strres.end.none)) =>
        LET found == FoundWithin(strres.s, strres.sub, strres.start,
                                 strres.end)
        IN  /\ strres.status = "ok"
            /\ strres.value
                  = (IF found = {} THEN PyInt(-1)
                     ELSE PyInt(CHOOSE i \in found : \A j \in found : i <= j))

----------------------------------------------------------------------------
(* Specifications                                                          *)

Init ==
    /\ SchemaInit
    /\ TraceInit
    /\ SliceInit
    /\ RTInit
    /\ ViewsInit
    /\ PrinterInit
    /\ StringInit

SpecSchema == Init /\ [][SchemaNext]_vars

SpecTrace == Init /\ [][TraceNext]_vars

SpecSlice == Init /\ [][SliceNext]_vars

SpecClassArg == Init /\ [][ClassArgNext]_vars

SpecRT == Init /\ [][RTNext]_vars

SpecDeclare == Init /\ [][DeclareNext]_vars

\* the program has declared two or more schemas
SumInit ==
    /\ \E bodies \in AddendPools :
           /\ schemas = BuildPool(bodies, <<>>, <<>>).pool
           /\ cdefs = BuildPool(bodies, <<>>, <<>>).heap
    /\ sres = NoResult
    /\ TraceInit
    /\ SliceInit
    /\ RTInit
    /\ ViewsInit
    /\ PrinterInit
    /\ StringInit

SpecSum == SumInit /\ [][SumNext]_vars

\* the program stopped at any call stack of the library's and the program's
\* frames, from which a node is built
ScanInit ==
    /\ \E n \in 1..MaxDepth :
           \E frames \in [1..n -> AllFrames] :
               stack = [i \in 1..n |-> Entry(frames[i], NoTrace)]
    /\ pc = "running"
    /\ exc = NoExc
    /\ tb = <<>>
    /\ captured = NoTrace
    /\ tres = NoTres
    /\ SchemaInit
    /\ SliceInit
    /\ RTInit
    /\ ViewsInit
    /\ PrinterInit
    /\ StringInit

ScanNext == CaptureTrace

SpecScan == ScanInit /\ [][ScanNext]_vars

\* the program has created its column definitions and no schema yet
ShareInit ==
    /\ cdefs = SharedDefinitions
    /\ schemas = <<>>
    /\ sres = NoResult
    /\ TraceInit
    /\ SliceInit
    /\ RTInit
    /\ ViewsInit
    /\ PrinterInit
    /\ StringInit

SpecShare == ShareInit /\ [][ShareNext]_vars

\* the program has declared one schema and called none of its accessors
ViewedInit ==
    /\ \E body \in AddendInputs :
           /\ schemas = BuildPool(<<body>>, <<>>, <<>>).pool
           /\ cdefs = BuildPool(<<body>>, <<>>, <<>>).heap
    /\ sres = NoResult
    /\ TraceInit
    /\ SliceInit
    /\ RTInit
    /\ ViewsInit
    /\ PrinterInit
    /\ StringInit

SpecViews == ViewedInit /\ [][ViewsNext]_vars

SpecPrinter == Init /\ [][PrinterNext]_vars

SpecString == Init /\ [][StringNext]_vars

====
